---- MODULE Spec2Model ----
(***************************************************************************)
(* Model of the cutoff-report parser (pdf_parser.py, library mode) and of  *)
(* the PDF-to-SQL migrator (pdf_to_sql_migrator.py, persistence mode).     *)
(*                                                                         *)
(* A text is a sequence of one-character strings.  Every regular           *)
(* expression of the source is an operator that scans such a sequence the  *)
(* way Python's re module scans the string: leftmost match, greedy         *)
(* quantifiers with backtracking, \b as a word boundary, \s including the  *)
(* newline, '.' excluding it.                                              *)
(***************************************************************************)
EXTENDS Integers, Sequences, FiniteSets, TLC

(***************************************************************************)
(* Characters                                                              *)
(***************************************************************************)
NL == "\n"

Digits == {"0", "1", "2", "3", "4", "5", "6", "7", "8", "9"}

Uppers == {"A", "B", "C", "D", "E", "F", "G", "H", "I", "J", "K", "L", "M",
           "N", "O", "P", "Q", "R", "S", "T", "U", "V", "W", "X", "Y", "Z"}

Lowers == {"a", "b", "c", "d", "e", "f", "g", "h", "i", "j", "k", "l", "m",
           "n", "o", "p", "q", "r", "s", "t", "u", "v", "w", "x", "y", "z"}

\* \s of the re module
IsSpace(c) == c \in {" ", "\n", "\t", "\r", "\f"}

\* \w of the re module
IsWord(c) == c \in Digits \cup Uppers \cup Lowers \cup {"_"}

\* the characters of the stage class [IVX]
IsRoman(c) == c \in {"I", "V", "X"}

\* the characters of the percentile class [\d.]
IsPctChar(c) == c \in Digits \cup {"."}

\* Python's None; like the empty string it is falsy
None == <<>>

(***************************************************************************)
(* String helpers: str.split('\n'), str.strip(), '\n'.join, `in`           *)
(***************************************************************************)
RECURSIVE IndexFrom(_, _, _)
\* smallest q >= p with s[q] = c, Len(s)+1 when there is none
IndexFrom(s, c, p) ==
  IF p > Len(s) THEN Len(s) + 1
  ELSE IF s[p] = c THEN p ELSE IndexFrom(s, c, p + 1)

RECURSIVE SplitFrom(_, _)
SplitFrom(s, p) ==
  LET q == IndexFrom(s, NL, p)
  IN  IF q > Len(s) THEN << SubSeq(s, p, Len(s)) >>
      ELSE << SubSeq(s, p, q - 1) >> \o SplitFrom(s, q + 1)

\* text.split('\n')
Split(s) == SplitFrom(s, 1)

RECURSIVE Join(_)
\* '\n'.join(lines)
Join(ls) ==
  IF Len(ls) = 0 THEN << >>
  ELSE IF Len(ls) = 1 THEN ls[1]
  ELSE ls[1] \o << NL >> \o Join(Tail(ls))

RECURSIVE SkipSpaces(_, _)
\* first position >= p that does not hold a whitespace character
SkipSpaces(s, p) ==
  IF p <= Len(s) /\ IsSpace(s[p]) THEN SkipSpaces(s, p + 1) ELSE p

RECURSIVE SkipSpacesBack(_, _)
\* last position <= p that does not hold a whitespace character
SkipSpacesBack(s, p) ==
  IF p >= 1 /\ IsSpace(s[p]) THEN SkipSpacesBack(s, p - 1) ELSE p

\* s.strip()
Strip(s) == SubSeq(s, SkipSpaces(s, 1), SkipSpacesBack(s, Len(s)))

\* pat occurs in s at position p
OccursAt(s, pat, p) ==
  /\ p + Len(pat) - 1 <= Len(s)
  /\ \A k \in 1..Len(pat) : s[p + k - 1] = pat[k]

\* pat in s
Contains(s, pat) == \E p \in 1..Len(s) : OccursAt(s, pat, p)

\* \b at the gap before position p (p = Len(s)+1 is the end of the string)
WordBoundary(s, p) ==
  LET before == p >= 2 /\ p - 1 <= Len(s) /\ IsWord(s[p - 1])
      after  == p >= 1 /\ p <= Len(s) /\ IsWord(s[p])
  IN  before # after

RECURSIVE RunLen(_, _, _)
\* length of the longest run of characters of class cls (0 digits, 1 roman,
\* 2 uppercase, 3 percentile characters) that starts at p
RunLen(s, p, cls) ==
  IF p > Len(s) THEN 0
  ELSE IF \/ cls = 0 /\ s[p] \in Digits
          \/ cls = 1 /\ IsRoman(s[p])
          \/ cls = 2 /\ s[p] \in Uppers
          \/ cls = 3 /\ IsPctChar(s[p])
       THEN 1 + RunLen(s, p + 1, cls)
       ELSE 0

(***************************************************************************)
(* Literals of the source                                                  *)
(***************************************************************************)
StateLevelLit == << "S", "t", "a", "t", "e", " ", "L", "e", "v", "e", "l" >>
StatusLit     == << "S", "t", "a", "t", "u", "s", ":" >>
StageLit      == << "S", "t", "a", "g", "e" >>
NonLit        == << "-", "N", "o", "n" >>
PwdLit        == << "P", "W", "D" >>
UnknownLit    == << "U", "n", "k", "n", "o", "w", "n" >>

(***************************************************************************)
(* The regular expressions of the source                                   *)
(***************************************************************************)
Max(S) == CHOOSE x \in S : \A y \in S : y <= x

Min(S) == CHOOSE x \in S : \A y \in S : x <= y

\* length matched at p by \b X{lo,hi} \b, X the character class cls: the
\* longest admissible repetition after which a word boundary follows, 0 when
\* the expression does not match at p
TokenLenAt(s, p, cls, lo, hi) ==
  IF ~WordBoundary(s, p) THEN 0
  ELSE LET r == RunLen(s, p, cls)
           m == IF r < hi THEN r ELSE hi
           S == { n \in lo..m : WordBoundary(s, p + n) }
       IN  IF S = {} THEN 0 ELSE Max(S)

RECURSIVE FindTokens(_, _, _, _, _)
\* re.findall(r'\bX{lo,hi}\b', s), scanning from position p
FindTokens(s, p, cls, lo, hi) ==
  LET S == { q \in p..Len(s) : TokenLenAt(s, q, cls, lo, hi) > 0 }
  IN  IF S = {} THEN << >>
      ELSE LET q == Min(S)
               n == TokenLenAt(s, q, cls, lo, hi)
           IN  << SubSeq(s, q, q + n - 1) >> \o FindTokens(s, q + n, cls, lo, hi)

\* re.findall(r'\b[A-Z]{4,6}\b', line)
FindCategories(line) == FindTokens(line, 1, 2, 4, 6)

\* re.findall(r'\b(\d{4,6})\b', line)
FindRanks(line) == FindTokens(line, 1, 0, 4, 6)

\* \(([\d.]+)\) matches at position p
PercentageAt(s, p) ==
  LET r == RunLen(s, p + 1, 3)
  IN  s[p] = "(" /\ r >= 1 /\ p + 1 + r <= Len(s) /\ s[p + 1 + r] = ")"

RECURSIVE FindPercentagesFrom(_, _)
\* re.findall(r'\(([\d.]+)\)', s), scanning from position p
FindPercentagesFrom(s, p) ==
  LET S == { q \in p..Len(s) : PercentageAt(s, q) }
  IN  IF S = {} THEN << >>
      ELSE LET q == Min(S)
               r == RunLen(s, q + 1, 3)
           IN  << SubSeq(s, q + 1, q + r) >> \o FindPercentagesFrom(s, q + r + 2)

FindPercentages(line) == FindPercentagesFrom(line, 1)

\* (?:-Non\s+PWD)?\b matches at position q
StageTailAt(s, q) ==
  \/ WordBoundary(s, q)
  \/ /\ OccursAt(s, NonLit, q)
     /\ q + 4 <= Len(s) /\ IsSpace(s[q + 4])
     /\ LET w == SkipSpaces(s, q + 4)
        IN  OccursAt(s, PwdLit, w) /\ WordBoundary(s, w + 3)

\* number of characters group 1 of \b([IVX]+)(?:-Non\s+PWD)?\b takes at p
StageLenAt(s, p) ==
  IF ~WordBoundary(s, p) THEN 0
  ELSE LET r == RunLen(s, p, 1)
           S == { n \in 1..r : StageTailAt(s, p + n) }
       IN  IF S = {} THEN 0 ELSE Max(S)

\* re.search(r'\b([IVX]+)(?:-Non\s+PWD)?\b', line): group 1 of the leftmost
\* match, None without a match
StageSearch(line) ==
  LET S == { p \in 1..Len(line) : StageLenAt(line, p) > 0 }
  IN  IF S = {} THEN None
      ELSE SubSeq(line, Min(S), Min(S) + StageLenAt(line, Min(S)) - 1)

\* re.match(r'^\d{10}', line)
StartsWithTenDigits(line) == RunLen(line, 1, 0) >= 10

\* a mutation of LazyTailAt: the lookahead (?=\n|$) is missing and the lazy
\* group stops after one character
LazyTailNoLookahead(s, d) ==
  LET tmax == SkipSpaces(s, d)
      T    == { t \in d..tmax : t <= Len(s) /\ s[t] # NL }
  IN  IF T = {} THEN None
      ELSE LET t == Max(T) IN << t, t >>

\* The tail \s*(.+?)(?=\n|$) of the branch and status patterns, entered at
\* position d: the greedy \s* gives back whitespace until '.' can take a
\* character, the lazy group then runs to the end of that physical line.
\* Result: << first, last >> position of the group, None without a match.
LazyTailAt(s, d) ==
  LET tmax == SkipSpaces(s, d)
      T    == { t \in d..tmax : t <= Len(s) /\ s[t] # NL }
  IN  IF T = {} THEN None
      ELSE LET t == Max(T) IN << t, IndexFrom(s, NL, t) - 1 >>

\* self.branch_pattern = r'(\d{10})\s*-\s*(.+?)(?=\n|$)' tried at position q:
\* [from, to, code, name] of the match, None when it does not match there
BranchMatchAt(s, q) ==
  IF RunLen(s, q, 0) < 10 THEN None
  ELSE LET d == SkipSpaces(s, q + 10)
       IN  IF d > Len(s) \/ s[d] # "-" THEN None
           ELSE LET g == LazyTailAt(s, d + 1)
                IN  IF g = None THEN None
                    ELSE [from |-> q, to |-> g[2],
                          code |-> SubSeq(s, q, q + 9),
                          name |-> SubSeq(s, g[1], g[2])]

\* re.search(self.branch_pattern, s[p-1:]) in positions of s: the leftmost match
BranchSearch(s, p) ==
  LET S == { q \in p..Len(s) : BranchMatchAt(s, q) # None }
  IN  IF S = {} THEN None ELSE BranchMatchAt(s, Min(S))

RECURSIVE BranchFindIter(_, _)
\* list(re.finditer(self.branch_pattern, s)), scanning from position p
BranchFindIter(s, p) ==
  LET m == BranchSearch(s, p)
  IN  IF m = None THEN << >> ELSE << m >> \o BranchFindIter(s, m.to + 1)

\* re.search(self.status_pattern, s) with r'Status:\s*(.+?)(?=\n|$)': group 1
\* of the leftmost match, None without a match
StatusSearch(s) ==
  LET S == { p \in 1..Len(s) :
               OccursAt(s, StatusLit, p) /\ LazyTailAt(s, p + 7) # None }
  IN  IF S = {} THEN None
      ELSE LET g == LazyTailAt(s, Min(S) + 7) IN SubSeq(s, g[1], g[2])

\* a mutation of CollegeMatch: \s+ in place of \s* in front of the dash
CollegeMatchSpaced(line) ==
  IF RunLen(line, 1, 0) < 5 THEN None
  ELSE LET d == SkipSpaces(line, 6)
       IN  IF d = 6 \/ d > Len(line) \/ line[d] # "-" THEN None
           ELSE LET tmax == SkipSpaces(line, d + 1)
                    T    == { t \in (d + 1)..tmax :
                                t <= Len(line) /\ IndexFrom(line, NL, t) > Len(line) }
                IN  IF T = {} THEN None
                    ELSE << SubSeq(line, 1, 5), SubSeq(line, Max(T), Len(line)) >>

\* re.match(r'^(\d{5})\s*-\s*(.+)$', line) on a stripped line:
\* << group 1, group 2 >>, None without a match
CollegeMatch(line) ==
  IF RunLen(line, 1, 0) < 5 THEN None
  ELSE LET d == SkipSpaces(line, 6)
       IN  IF d > Len(line) \/ line[d] # "-" THEN None
           ELSE LET tmax == SkipSpaces(line, d + 1)
                    T    == { t \in (d + 1)..tmax :
                                t <= Len(line) /\ IndexFrom(line, NL, t) > Len(line) }
                IN  IF T = {} THEN None
                    ELSE << SubSeq(line, 1, 5), SubSeq(line, Max(T), Len(line)) >>

(***************************************************************************)
(* Numeric conversion                                                      *)
(***************************************************************************)
DigitVal(c) ==
  CASE c = "0" -> 0 [] c = "1" -> 1 [] c = "2" -> 2 [] c = "3" -> 3
    [] c = "4" -> 4 [] c = "5" -> 5 [] c = "6" -> 6 [] c = "7" -> 7
    [] c = "8" -> 8 [] c = "9" -> 9

RECURSIVE DigitsVal(_, _)
\* value of the digits of s (dots skipped) with acc as the leading part
DigitsVal(s, acc) ==
  IF s = << >> THEN acc
  ELSE IF Head(s) = "." THEN DigitsVal(Tail(s), acc)
  ELSE DigitsVal(Tail(s), 10 * acc + DigitVal(Head(s)))

\* int(rank) for a string of digits
IntOf(s) == DigitsVal(s, 0)

\* float(s) raises ValueError: s, a string over [\d.], has no digit or
\* more than one dot
FloatFails(s) ==
  \/ \A k \in 1..Len(s) : s[k] = "."
  \/ Cardinality({ k \in 1..Len(s) : s[k] = "." }) > 1

RECURSIVE Normalize(_, _)
\* the decimal m / 10^e without trailing zeros in the fraction
Normalize(m, e) ==
  IF e > 0 /\ m % 10 = 0 THEN Normalize(m \div 10, e - 1) ELSE [m |-> m, e |-> e]

\* float(s) for a string that converts: the value as a normalised decimal
FloatOf(s) ==
  LET dot == IndexFrom(s, ".", 1)
      e   == IF dot > Len(s) THEN 0 ELSE Len(s) - dot
  IN  Normalize(DigitsVal(s, 0), e)

(***************************************************************************)
(* Cutoff table recovery for one branch section                            *)
(***************************************************************************)
\* a mutation of StateLevelIndex: without an anchor the first line is taken
StateLevelIndexAssumed(lines) ==
  LET S == { i \in 1..Len(lines) : Contains(lines[i], StateLevelLit) }
  IN  IF S = {} THEN 1 ELSE Min(S)

\* index of the first line containing 'State Level', 0 when there is none
StateLevelIndex(lines) ==
  LET S == { i \in 1..Len(lines) : Contains(lines[i], StateLevelLit) }
  IN  IF S = {} THEN 0 ELSE Min(S)

\* a mutation of CategoriesLineIndex: the line is looked for among 5 lines
CategoriesLineIndexWide(lines, state_level_index) ==
  LET last == IF state_level_index + 5 < Len(lines)
              THEN state_level_index + 5 ELSE Len(lines)
      S == { i \in (state_level_index + 1)..last :
               /\ Strip(lines[i]) # << >>
               /\ Len(FindCategories(Strip(lines[i]))) >= 3 }
  IN  IF S = {} THEN 0 ELSE Min(S)

\* index of the categories line: the first non-blank line among the 4 lines
\* after the anchor with at least 3 category codes, 0 when there is none
CategoriesLineIndex(lines, state_level_index) ==
  LET last == IF state_level_index + 4 < Len(lines)
              THEN state_level_index + 4 ELSE Len(lines)
      S == { i \in (state_level_index + 1)..last :
               /\ Strip(lines[i]) # << >>
               /\ Len(FindCategories(Strip(lines[i]))) >= 3 }
  IN  IF S = {} THEN 0 ELSE Min(S)

\* a mutation of BindPercentage: the percentile goes to the oldest open rank
BindPercentageOldest(stage_data, percentage, orphan) ==
  LET S == { k \in 1..Len(stage_data) : stage_data[k][2] = None }
  IN  IF S # {}
      THEN [stage_data EXCEPT ![Min(S)] = << stage_data[Min(S)][1], percentage >>]
      ELSE IF orphan THEN Append(stage_data, << None, percentage >>)
      ELSE stage_data

\* one percentile: it goes to the most recent entry without a percentile;
\* with no such entry the parser appends (None, percentage) (orphan = TRUE)
\* and the migrator drops it (orphan = FALSE)
BindPercentage(stage_data, percentage, orphan) ==
  LET S == { k \in 1..Len(stage_data) : stage_data[k][2] = None }
  IN  IF S # {}
      THEN [stage_data EXCEPT ![Max(S)] = << stage_data[Max(S)][1], percentage >>]
      ELSE IF orphan THEN Append(stage_data, << None, percentage >>)
      ELSE stage_data

RECURSIVE BindAll(_, _, _)
\* for percentage in percentages: ...
BindAll(stage_data, percentages, orphan) ==
  IF percentages = << >> THEN stage_data
  ELSE BindAll(BindPercentage(stage_data, Head(percentages), orphan),
               Tail(percentages), orphan)

\* the tokens of one line of a stage block: all ranks of the line are
\* appended first, then the percentiles of the line are bound
CollectLine(stage_data, next_line, orphan) ==
  LET ranks == FindRanks(next_line)
  IN  BindAll(stage_data \o [k \in 1..Len(ranks) |-> << ranks[k], None >>],
              FindPercentages(next_line), orphan)

\* a mutation of IsBoundary: a later stage line is no boundary
IsBoundaryNoStage(next_line, j, i, stageWord) ==
  \/ Contains(next_line, StatusLit)
  \/ StartsWithTenDigits(next_line)
  \/ stageWord /\ Contains(next_line, StageLit)

\* a mutation of IsBoundary: a line containing 'Status:' is no boundary
IsBoundaryNoStatus(next_line, j, i, stageWord) ==
  \/ StageSearch(next_line) # None /\ j > i
  \/ StartsWithTenDigits(next_line)
  \/ stageWord /\ Contains(next_line, StageLit)

\* the boundary test of the look-ahead loop; only the parser also stops at
\* a line containing 'Stage' (stageWord = TRUE)
IsBoundary(next_line, j, i, stageWord) ==
  \/ StageSearch(next_line) # None /\ j > i
  \/ Contains(next_line, StatusLit)
  \/ StartsWithTenDigits(next_line)
  \/ stageWord /\ Contains(next_line, StageLit)

\* the look-ahead of a stage block: range(i, min(i + 20, len(lines)))
StageWindow == 20

RECURSIVE CollectStage(_, _, _, _, _, _)
\* for j in range(i, min(i + 20, len(lines))): the stage_data of the block
\* opened at line i, from line j on
CollectStage(lines, i, j, stage_data, orphan, stageWord) ==
  IF j > i + StageWindow - 1 \/ j > Len(lines) THEN stage_data
  ELSE LET next_line == Strip(lines[j])
       IN  IF next_line = << >>
           THEN CollectStage(lines, i, j + 1, stage_data, orphan, stageWord)
           ELSE IF IsBoundary(next_line, j, i, stageWord) THEN stage_data
           ELSE CollectStage(lines, i, j + 1,
                             CollectLine(stage_data, next_line, orphan),
                             orphan, stageWord)

\* complete_data = [(rank, percentage) for ... if rank and percentage]
CompleteData(stage_data) ==
  SelectSeq(stage_data, LAMBDA e : e[1] # None /\ e[2] # None)

\* a mutation of AssignCategories: a pair whose float() raises ends the loop
AssignCategoriesStops(stage, categories, complete_data, j) ==
  LET n == IF Len(complete_data) < Len(categories)
           THEN Len(complete_data) ELSE Len(categories)
      F == { k \in j..n : FloatFails(complete_data[k][2]) }
      stop == IF F = {} THEN n ELSE Min(F) - 1
  IN  [k \in 1..(stop - j + 1) |->
         [stage      |-> stage,
          category   |-> categories[j + k - 1],
          rank       |-> IntOf(complete_data[j + k - 1][1]),
          percentage |-> FloatOf(complete_data[j + k - 1][2])]]

RECURSIVE AssignCategories(_, _, _, _)
\* for j, (rank, percentage) in enumerate(complete_data): the entries of the
\* pairs from position j on; a pair whose float() raises adds nothing, a pair
\* beyond the categories ends the loop
AssignCategories(stage, categories, complete_data, j) ==
  IF j > Len(complete_data) \/ j > Len(categories) THEN << >>
  ELSE LET rest == AssignCategories(stage, categories, complete_data, j + 1)
       IN  IF FloatFails(complete_data[j][2]) THEN rest
           ELSE << [stage      |-> stage,
                    category   |-> categories[j],
                    rank       |-> IntOf(complete_data[j][1]),
                    percentage |-> FloatOf(complete_data[j][2])] >> \o rest

RECURSIVE StageRows(_, _, _, _, _, _)
\* for i in range(categories_line_index + 1, len(lines)): the cutoff entries
\* and the overflow warnings of the stage lines from line i on
StageRows(lines, categories, i, orphan, stageWord, warn) ==
  IF i > Len(lines) THEN [cutoff_data |-> << >>, warnings |-> 0]
  ELSE LET line  == Strip(lines[i])
           stage == IF line = << >> THEN None ELSE StageSearch(line)
           rest  == StageRows(lines, categories, i + 1, orphan, stageWord, warn)
       IN  IF stage = None THEN rest
           ELSE LET complete_data ==
                      CompleteData(CollectStage(lines, i, i, << >>, orphan, stageWord))
                IN  [cutoff_data |->
                       AssignCategories(stage, categories, complete_data, 1)
                         \o rest.cutoff_data,
                     warnings |->
                       (IF warn /\ Len(complete_data) > Len(categories)
                        THEN 1 ELSE 0) + rest.warnings]

\* the body shared by extract_cutoff_data and parse_cutoff_data
CutoffTable(section_text, orphan, stageWord, warn) ==
  LET lines == Split(section_text)
      state_level_index == StateLevelIndex(lines)
      categories_line_index ==
        IF state_level_index = 0 THEN 0
        ELSE CategoriesLineIndex(lines, state_level_index)
  IN  IF categories_line_index = 0 THEN [cutoff_data |-> << >>, warnings |-> 0]
      ELSE StageRows(lines, FindCategories(Strip(lines[categories_line_index])),
                     categories_line_index + 1, orphan, stageWord, warn)

\* EnhancedCollegeParser.extract_cutoff_data: the cutoff entries and the
\* number of overflow warnings it logs
extract_cutoff_data(section_text) == CutoffTable(section_text, TRUE, TRUE, TRUE)

\* PDFToSQLMigrator.parse_cutoff_data: no orphan entries, no 'Stage'
\* boundary, no warning
parse_cutoff_data(section_text) == CutoffTable(section_text, FALSE, FALSE, FALSE)

(***************************************************************************)
(* Branch and college segmentation (library mode)                          *)
(***************************************************************************)
RECURSIVE SumSeq(_)
SumSeq(q) == IF q = << >> THEN 0 ELSE Head(q) + SumSeq(Tail(q))

\* the text of the branch whose header is the match m: from the end of the
\* match to the start of the next branch match, or to the end of the section
BranchSection(college_section, m) ==
  LET next_match == BranchSearch(college_section, m.to + 1)
      end_pos == IF next_match # None THEN next_match.from - 1
                 ELSE Len(college_section)
  IN  SubSeq(college_section, m.to + 1, end_pos)

\* status_match.group(1).strip() if status_match else "Unknown"
BranchStatus(branch_section) ==
  LET g == StatusSearch(branch_section)
  IN  IF g # None THEN Strip(g) ELSE UnknownLit

\* the record appended for the branch match m, with the number of overflow
\* warnings its table logged
BranchRecord(m, status, table) ==
  [branch_code |-> m.code,
   branch_name |-> Strip(m.name),
   status      |-> status,
   cutoff_data |-> table.cutoff_data,
   warnings    |-> table.warnings]

\* one pass of the loop of extract_branches_for_college
BranchOf(m, branch_section) ==
  BranchRecord(m, BranchStatus(branch_section), extract_cutoff_data(branch_section))

BranchesOf(college_section, matches) ==
  [k \in 1..Len(matches) |->
     BranchOf(matches[k], BranchSection(college_section, matches[k]))]

\* EnhancedCollegeParser.extract_branches_for_college: the branch records,
\* each with the number of overflow warnings logged for it
extract_branches_for_college(college_section) ==
  BranchesOf(college_section, BranchFindIter(college_section, 1))

\* the dictionary extract_colleges appends for an entry of college_lines
CollegeRecord(entry, branches) ==
  [college_code   |-> entry[2],
   college_name   |-> entry[3],
   branches       |-> [k \in 1..Len(branches) |->
                         [branch_code |-> branches[k].branch_code,
                          branch_name |-> branches[k].branch_name,
                          status      |-> branches[k].status,
                          cutoff_data |-> branches[k].cutoff_data]],
   total_branches |-> Len(branches)]

RECURSIVE CollegeLinesFrom(_, _)
\* the (index, code, name) triples of the college-header lines from line i on
CollegeLinesFrom(lines, i) ==
  IF i > Len(lines) THEN << >>
  ELSE LET line == Strip(lines[i])
           m == IF line = << >> THEN None ELSE CollegeMatch(line)
       IN  IF m = None THEN CollegeLinesFrom(lines, i + 1)
           ELSE << << i, m[1], Strip(m[2]) >> >> \o CollegeLinesFrom(lines, i + 1)

\* the college_lines list of extract_colleges and migrate_pdf_to_database
CollegeLines(t) == CollegeLinesFrom(Split(t), 1)

\* a mutation of CollegeSection: every section runs to the end of the text
CollegeSectionToEnd(t, cl, k) ==
  LET lines == Split(t)
  IN  Join(SubSeq(lines, cl[k][1], Len(lines)))

\* '\n'.join(lines[start_line:end_line]) for entry k of college_lines
CollegeSection(t, cl, k) ==
  LET lines == Split(t)
      end_line == IF k + 1 <= Len(cl) THEN cl[k + 1][1] - 1 ELSE Len(lines)
  IN  Join(SubSeq(lines, cl[k][1], end_line))

\* a mutation of SuccessResult: total_cutoffs counts the entries of the first
\* branch of every college only
SuccessResultFirstBranch(cs) ==
  [colleges       |-> cs,
   total_colleges |-> Len(cs),
   total_branches |-> SumSeq([k \in 1..Len(cs) |-> cs[k].total_branches]),
   total_cutoffs  |->
     SumSeq([k \in 1..Len(cs) |->
               IF cs[k].branches = << >> THEN 0
               ELSE Len(cs[k].branches[1].cutoff_data)]),
   parsing_success |-> TRUE]

\* the value parse_pdf returns for a non-empty list of college records
SuccessResult(cs) ==
  [colleges       |-> cs,
   total_colleges |-> Len(cs),
   total_branches |-> SumSeq([k \in 1..Len(cs) |-> cs[k].total_branches]),
   total_cutoffs  |->
     SumSeq([k \in 1..Len(cs) |->
               SumSeq([b \in 1..Len(cs[k].branches) |->
                         Len(cs[k].branches[b].cutoff_data)])]),
   parsing_success |-> TRUE]

NoTextResult ==
  [error |-> "Could not extract text from PDF", parsing_success |-> FALSE]

NoCollegesResult ==
  [error |-> "Could not extract any colleges from PDF", parsing_success |-> FALSE]

(***************************************************************************)
(* Input texts.  A generated document is described by its shape: a         *)
(* sequence of colleges, each a sequence of branch bodies; a body is a     *)
(* record [kind, m, n] and stands for the lines that follow the branch     *)
(* header.  TextOf renders a shape as the text the program reads.          *)
(***************************************************************************)
\* bounds of the generated documents
MaxPairs    == 4   \* rank/percentile tokens of one stage block
MaxColleges == 2   \* colleges of a document
MaxBranches == 2   \* branches of a college in a document of small bodies

DigitChars == << "0", "1", "2", "3", "4", "5", "6", "7", "8", "9" >>
DigitChar(n) == DigitChars[n + 1]

CollegeNames == << << "G", "C", "E" >>, << "G", "C" >>, << "S", "P" >>,
                   << "K", "K" >> >>
BranchNames  == << << "C", "E" >>, << "I", "T" >>, << "M", "E" >>,
                   << "E", "E" >> >>

CollegeCode(c) == << "0", "1", "0", "0", DigitChar(c) >>
BranchCode(c, b) == CollegeCode(c) \o << "1", "9", "1", DigitChar(b), "0" >>
Dash == << " ", "-", " " >>
CollegeHeader(c) == CollegeCode(c) \o Dash \o CollegeNames[c]
BranchHeader(c, b) == BranchCode(c, b) \o Dash \o BranchNames[b]

StatusValue == << "G", "o", "v", "t" >>
StatusLine  == StatusLit \o << " " >> \o StatusValue
Cats3 ==
  << "G", "O", "P", "E", "N", "S", " ", "G", "S", "C", "S", " ", "G", "O",
     "B", "C", "S" >>
Cats2 ==
  << "G", "O", "P", "E", "N", "S", " ", "G", "S", "C", "S" >>
CatCodes == << << "G", "O", "P", "E", "N", "S" >>, << "G", "S", "C", "S" >>,
               << "G", "O", "B", "C", "S" >> >>
\* a second line of three category codes: "LOPENS LSCS LOBCS"
CatsAlt ==
  << "L", "O", "P", "E", "N", "S", " ", "L", "S", "C", "S", " ", "L", "O",
     "B", "C", "S" >>
AltCodes == << << "L", "O", "P", "E", "N", "S" >>, << "L", "S", "C", "S" >>,
               << "L", "O", "B", "C", "S" >> >>
StageI  == << "I" >>
StageII == << "I", "I" >>
StageWordI == StageLit \o << " ", "I" >>

\* the j-th rank token of stage st: "1001", "1002", ... and "2001", ...
RankTok(st, j) == << DigitChar(st), "0", "0", DigitChar(j) >>
\* the j-th percentile: "90.5", "80.5", ...; PctTok is the token "(90.5)"
PctStr(j) == << DigitChar(10 - j), "0", ".", "5" >>
PctTok(j) == << "(" >> \o PctStr(j) \o << ")" >>
BadPctStr == << "1", ".", "2", ".", "3" >>

RECURSIVE SpaceJoin(_)
\* the tokens of a line separated by one space
SpaceJoin(toks) ==
  IF Len(toks) = 0 THEN << >>
  ELSE IF Len(toks) = 1 THEN toks[1]
  ELSE toks[1] \o << " " >> \o SpaceJoin(Tail(toks))

\* "1001 (90.5) 1002 (80.5) ...": k ranks, each followed by its percentile
DataLine(st, k) ==
  SpaceJoin([t \in 1..(2 * k) |->
               IF t % 2 = 1 THEN RankTok(st, (t + 1) \div 2) ELSE PctTok(t \div 2)])
\* as DataLine, the last percentile written "(1.2.3)"
BadDataLine(st, k) ==
  SpaceJoin([t \in 1..(2 * k) |->
               IF t % 2 = 1 THEN RankTok(st, (t + 1) \div 2)
               ELSE IF t = 2 * k THEN << "(" >> \o BadPctStr \o << ")" >>
               ELSE PctTok(t \div 2)])
RanksLine(st, m) == SpaceJoin([j \in 1..m |-> RankTok(st, j)])
\* the percentiles number lo..hi on one line
PctsLine(lo, hi) == SpaceJoin([j \in 1..(hi - lo + 1) |-> PctTok(lo + j - 1)])

\* lines with tokens outside the ranges of a cutoff entry, with a percentile
\* ahead of its rank, and with digits between parentheses
ZeroRankLine == << "0", "0", "0", "0", " ", "(", "1", "2", "3", ".", "4", ")" >>
PctLeadLine  == PctTok(1) \o << " " >> \o RankTok(1, 1)
LongPctLine  == << "(", "8", "5", ".", "1", "2", "3", "4", ")" >>
ParenIntLine == << "(", "1", "2", "3", "4", "5", ")" >>

\* a line that closes a stage block, with a rank and a percentile on it:
\* 1 a 'Status:' line, 2 a line starting with 10 digits, 3 a stage line
ClosingLine(v) ==
  (CASE v = 1 -> StatusLit
     [] v = 2 -> BranchCode(1, 1)
     [] v = 3 -> StageII)
    \o << " " >> \o RankTok(1, 3) \o << " " >> \o PctTok(3)

\* the line "100j (pct j)" of stage st
PairLine(st, j) == RankTok(st, j) \o << " " >> \o PctTok(j)
\* a stage I block of two pairs, one pair a line
TwoRows == << StageI, PairLine(1, 1), PairLine(1, 2) >>

\* as PairLine, the percentile written "(1.2.3)"
BadPairLine(st, j) == RankTok(st, j) \o << " ", "(" >> \o BadPctStr \o << ")" >>

\* lines with the text of a branch header behind something else: behind a
\* word ("Ref 0100119120 - IT") and behind two more digits
\* ("990100119120 - IT")
MidLineHeader == << "R", "e", "f", " " >> \o BranchHeader(1, 2)
LongRunHeader == << "9", "9" >> \o BranchHeader(1, 2)

Body(kind, m, n) == [kind |-> kind, m |-> m, n |-> n]

\* the lines of a branch section after its header
BodyLines(b) ==
  CASE b.kind = "none"      -> << StatusLine >>
    [] b.kind = "plain"     -> << StatusLine, StateLevelLit, Cats3, StageI,
                                  DataLine(1, b.m) >>
    [] b.kind = "inline"    -> << StateLevelLit, Cats3,
                                  StageI \o << " " >> \o DataLine(1, b.m) >>
    [] b.kind = "rows"      -> << StateLevelLit, Cats3, StageI >>
                                 \o [j \in 1..b.m |-> RankTok(1, j) \o << " " >> \o PctTok(j)]
    [] b.kind = "partial"   -> << StateLevelLit, Cats3, StageI,
                                  SpaceJoin(<< DataLine(1, b.n) >>
                                    \o [j \in 1..(b.m - b.n) |-> RankTok(1, b.n + j)]) >>
    [] b.kind = "noanchor"  -> << Cats3, StageI, DataLine(1, b.m) >>
    [] b.kind = "split"     -> << StateLevelLit, Cats3, StageI,
                                  RanksLine(1, b.m), PctsLine(1, b.n) >>
    [] b.kind = "pctfirst"  -> << StateLevelLit, Cats3,
                                  StageI \o << " " >> \o PctTok(1),
                                  RanksLine(1, b.m) >>
                                 \o (IF b.n >= 2 THEN << PctsLine(2, b.n) >> ELSE << >>)
    [] b.kind = "two"       -> << StateLevelLit, Cats3, StageI, DataLine(1, b.m),
                                  StageII, DataLine(2, b.m) >>
    [] b.kind = "bad"       -> << StateLevelLit, Cats3, StageI, BadDataLine(1, b.m) >>
    [] b.kind = "zerorank"  -> << StateLevelLit, Cats3, StageI, ZeroRankLine >>
    [] b.kind = "pctlead"   -> << StateLevelLit, Cats3, StageI, PctLeadLine >>
    [] b.kind = "longpct"   -> << StateLevelLit, Cats3, StageI, LongPctLine >>
    [] b.kind = "parenint"  -> << StateLevelLit, Cats3, StageI, ParenIntLine >>
    [] b.kind = "closed"    -> << StateLevelLit, Cats3, StageI, DataLine(1, 1),
                                  ClosingLine(b.m),
                                  RankTok(1, 2) \o << " " >> \o PctTok(2) >>
    [] b.kind = "window"    -> << StateLevelLit, Cats3, StageI, DataLine(1, 1) >>
                                 \o [j \in 1..(b.n - 2) |-> << >>]
                                 \o << RankTok(1, 2) \o << " " >> \o PctTok(2) >>
    [] b.kind = "catsat"    -> << StateLevelLit >>
                                 \o [j \in 1..(b.m - 1) |->
                                       IF b.n = 1 THEN Cats2 ELSE << >>]
                                 \o << Cats3 >> \o TwoRows
    [] b.kind = "catstwice" -> << StateLevelLit, CatsAlt, Cats3 >> \o TwoRows
    [] b.kind = "anchor2"   -> << StateLevelLit, Cats2, << >>, << >>, << >>,
                                  StateLevelLit, Cats3 >> \o TwoRows
    [] b.kind = "badrow"    -> << StateLevelLit, Cats3, StageI >>
                                 \o [j \in 1..b.m |->
                                       IF j = b.n THEN BadPairLine(1, j)
                                       ELSE PairLine(1, j)]
    [] b.kind = "midhdr"    -> << StatusLine, MidLineHeader, StateLevelLit, Cats3 >>
                                 \o TwoRows
    [] b.kind = "longrun"   -> << StatusLine, LongRunHeader, StateLevelLit, Cats3 >>
                                 \o TwoRows
    [] b.kind = "cats2"     -> << StateLevelLit, Cats2, StageI, DataLine(1, b.m) >>
    [] b.kind = "stageword" -> << StateLevelLit, Cats3, StageWordI, DataLine(1, b.m) >>

\* the bodies of single-branch documents
Bodies ==
  { Body("none", 0, 0), Body("cats2", 2, 2), Body("stageword", 2, 2),
    Body("noanchor", 2, 2), Body("zerorank", 1, 1), Body("pctlead", 1, 1),
    Body("longpct", 0, 1), Body("parenint", 0, 1) }
    \cup { Body("closed", v, 2) : v \in 1..3 }
    \cup { Body("catsat", 2, 1), Body("catstwice", 2, 2), Body("anchor2", 2, 2) }
    \cup { Body("catsat", k, f) : k \in 4..5, f \in 0..1 }
    \cup { Body("badrow", 3, n) : n \in 1..3 }
    \cup { Body("window", 2, n) : n \in {StageWindow - 1, StageWindow} }
    \cup { Body(kd, k, k) : kd \in {"plain", "inline", "rows", "two", "bad"},
                            k \in 1..MaxPairs }
    \cup { Body(kd, m, n) : kd \in {"split", "pctfirst"},
                            m \in 2..MaxPairs, n \in 1..MaxPairs }
    \cup { bd \in { Body("partial", m, n) : m \in 2..MaxPairs, n \in 1..MaxPairs } :
              bd.n < bd.m }
\* the bodies with the text of a branch header inside a line; their
\* documents carry the tag "midline"
MidlineBodies == { Body("midhdr", 2, 2), Body("longrun", 2, 2) }
\* the bodies of documents with several branches or colleges
SmallBodies == { Body("none", 0, 0), Body("plain", 2, 2), Body("two", 1, 1) }

CollegeShapes == UNION { [1..m -> SmallBodies] : m \in 0..MaxBranches }
Shapes ==
  { << << bd >> >> : bd \in Bodies }
    \cup { << cs >> : cs \in CollegeShapes }
    \cup UNION { [1..n -> { cs \in CollegeShapes : Len(cs) <= 1 }] : n \in 2..MaxColleges }
    \cup UNION { { [c \in 1..n |-> cs] : cs \in CollegeShapes } : n \in 2..MaxColleges }

RECURSIVE Flatten(_)
\* the concatenation of a sequence of sequences
Flatten(ss) == IF ss = << >> THEN << >> ELSE Head(ss) \o Flatten(Tail(ss))

\* the lines of college number c with the branch bodies bs
CollegeBlock(c, bs) ==
  << CollegeHeader(c) >>
    \o Flatten([b \in 1..Len(bs) |-> << BranchHeader(c, b) >> \o BodyLines(bs[b])])

TextOf(shape) == Join(Flatten([c \in 1..Len(shape) |-> CollegeBlock(c, shape[c])]))

\* the scenario text of the specification, character for character
ScenarioText ==
  << "0", "1", "0", "0", "2", " ", "-", " ", "G", "o", "v", "t", " ", "C",
     "o", "l", "l", "e", "g", "e", ",", " ", "C", "i", "t", "y", NL, "0",
     "1", "0", "0", "2", "1", "9", "1", "1", "0", " ", "-", " ", "C", "i",
     "v", "i", "l", " ", "E", "n", "g", "i", "n", "e", "e", "r", "i", "n",
     "g", NL, "S", "t", "a", "t", "u", "s", ":", " ", "G", "o", "v", "e",
     "r", "n", "m", "e", "n", "t", " ", "A", "u", "t", "o", "n", "o", "m",
     "o", "u", "s", NL, "S", "t", "a", "t", "e", " ", "L", "e", "v", "e",
     "l", NL, "G", "O", "P", "E", "N", "S", " ", "G", "S", "C", "S", NL,
     "I", NL, "5", "0", "0", " ", "(", "9", "0", ".", "1", ")", " ", "6",
     "0", "0", " ", "(", "8", "5", ".", "3", ")", NL >>

\* the literal block of property P3
P3Block ==
  << "G", "O", "P", "E", "N", "S", " ", "G", "S", "C", "S", " ", "G", "N",
     "T", "3", "S", NL, "I", NL, "3", "3", "7", "1", "7", " ", "(", "8",
     "8", ".", "6", "0", ")", " ", "4", "0", "2", "1", "0", " ", "(", "8",
     "5", ".", "1", "2", ")", " ", "5", "1", "0", "9", "0", " ", "(", "7",
     "9", ".", "0", "0", ")" >>

\* the P3 block as the table of a branch: headers and anchor in front
P3Text ==
  Join(<< CollegeHeader(1), BranchHeader(1, 1), StateLevelLit >>) \o << NL >> \o P3Block

\* a text without any college header
NoCollegeText == Join(<< BranchHeader(1, 1), StateLevelLit, Cats3, StageI, DataLine(1, 2) >>)

\* Documents of header-like lines.  A line is named by its kind: 1 a college
\* header, 2 one without blanks around the dash, 3 one with blanks around
\* the line, 4 six digits, 5 no name, 6 no dash, 7 a branch header.
MaxHeaderLines == 3
HeaderKinds == 1..7
HeaderLine(k) ==
  CASE k = 1 -> CollegeHeader(1)
    [] k = 2 -> CollegeCode(2) \o << "-" >> \o CollegeNames[2]
    [] k = 3 -> << " ", " " >> \o CollegeHeader(3) \o << " ", " " >>
    [] k = 4 -> CollegeCode(4) \o << "4" >> \o Dash \o CollegeNames[4]
    [] k = 5 -> CollegeCode(5) \o << " ", "-" >>
    [] k = 6 -> CollegeCode(6) \o << " " >> \o CollegeNames[4]
    [] k = 7 -> BranchHeader(1, 1)
\* the kinds that are college headers: 5 digits, a dash, a name
IsHeaderKind(k) == k \in 1..3
\* a document of such lines has the form of a shape: line j of kind k is
\* << Body("line", k, 0) >>
HeaderDocs ==
  UNION { [1..n -> { << Body("line", k, 0) >> : k \in HeaderKinds }] :
            n \in 1..MaxHeaderLines }
LineKind(ln) == ln[1].m
HeaderText(ks) == Join([j \in 1..Len(ks) |-> HeaderLine(LineKind(ks[j]))])

\* documents with a branch and its table in front of the first college
\* header: the lines of NoCollegeText, then the document of the shape
PreambleShapes ==
  { sh \in Shapes : Len(sh) = MaxColleges /\ \A c \in 1..Len(sh) : Len(sh[c]) = 1 }
PreambleText(sh) == NoCollegeText \o << NL >> \o TextOf(sh)

\* the inputs: tag names the literal texts, shape describes a generated one
Inputs ==
  { [tag |-> "preamble", shape |-> sh, text |-> PreambleText(sh)] :
      sh \in PreambleShapes }
    \cup
  { [tag |-> "midline", shape |-> << << bd >> >>, text |-> TextOf(<< << bd >> >>)] :
      bd \in MidlineBodies }
    \cup
  { [tag |-> "lines", shape |-> ks, text |-> HeaderText(ks)] : ks \in HeaderDocs }
    \cup
  { [tag |-> "shape", shape |-> sh, text |-> TextOf(sh)] : sh \in Shapes }
    \cup { [tag |-> "scenario",  shape |-> << >>, text |-> ScenarioText],
           [tag |-> "p3",        shape |-> << >>, text |-> P3Text],
           [tag |-> "empty",     shape |-> << >>, text |-> << >>],
           [tag |-> "nocollege", shape |-> << >>, text |-> NoCollegeText] }

(***************************************************************************)
(* Library mode: EnhancedCollegeParser.parse_pdf as a state machine        *)
(***************************************************************************)
VARIABLES
  text,           \* what extract_text_from_pdf returned
  tag, shape,     \* how the text was built (never read by the program)
  pc,             \* "start", "colleges" (the loop of extract_colleges), "done"
  college_lines,  \* the (index, code, name) list of extract_colleges
  i,              \* the college the loop is at
  colleges,       \* the college records appended so far
  warnings,       \* overflow warnings written to the log
  raised,         \* the loop positions whose try block raised
  result,         \* what parse_pdf returned, None before it returns
  previous,       \* the parses that returned earlier: text and result of each
  records         \* (k, record) of the colleges processed out of turn

pvars == << text, tag, shape, pc, college_lines, i, colleges, warnings, raised,
            result, previous, records >>

\* the state of persistence mode
VARIABLES
  m_pc,            \* "idle", "start", "college", "course", "cutoff", "done"
  run,             \* number of the migration under way
  returned,        \* what migrate_pdf_to_database returned, None before
  m_college_lines, \* the college_lines list of the migrator
  idx,             \* the college the loop is at
  store, tx, pending,
  college,         \* id of the row find_or_create_college returned
  branch_list,     \* BranchList of the college section
  b,               \* the branch the inner loop is at
  course,          \* id of the row find_or_create_course returned
  e,               \* the cutoff entry the innermost loop is at
  written,         \* course ids and cutoff keys the college under way wrote
  outcome,         \* per college of this run: TRUE committed, FALSE rolled back
  persisted,       \* ids and keys written by the committed colleges of all runs
  earlier          \* what the migration before this one left, None in the first

mvars == << m_pc, run, returned, m_college_lines, idx, store, tx, pending,
            college, branch_list, b, course, e, written, outcome, persisted,
            earlier >>

\* the entry list of one stage block while its lines are read
VARIABLES
  slots,    \* stage_data: the (rank, percentage) tuples collected so far
  before,   \* stage_data as it was before the last token was processed
  last,     \* the token processed last: "rank" or "pct", "idle" before any
  orphans   \* TRUE in extract_cutoff_data, FALSE in parse_cutoff_data

bvars == << slots, before, last, orphans >>

vars == << text, tag, shape, pc, college_lines, i, colleges, warnings, raised,
           result, previous, records, m_pc, run, returned, m_college_lines,
           idx, store, tx, pending, college, branch_list, b, course, e, written,
           outcome, persisted, earlier, slots, before, last, orphans >>

\* parse_pdf up to the loop of extract_colleges: no text is a failure value
ParseStart ==
  /\ pc = "start"
  /\ IF text = << >>
     THEN /\ result' = NoTextResult
          /\ pc' = "done"
          /\ UNCHANGED college_lines
     ELSE /\ college_lines' = CollegeLines(text)
          /\ pc' = "colleges"
          /\ UNCHANGED result
  /\ UNCHANGED << text, tag, shape, i, colleges, warnings, raised >>
  /\ UNCHANGED << previous, records, mvars, bvars >>

\* one pass of the loop of extract_colleges whose try block completes
ExtractCollege ==
  /\ pc = "colleges"
  /\ i <= Len(college_lines)
  /\ \E branches \in { extract_branches_for_college(
                           CollegeSection(text, college_lines, i)) } :
       /\ colleges' = Append(colleges, CollegeRecord(college_lines[i], branches))
       /\ warnings' = warnings
                        + SumSeq([k \in 1..Len(branches) |-> branches[k].warnings])
  /\ i' = i + 1
  /\ UNCHANGED << text, tag, shape, pc, college_lines, raised, result >>
  /\ UNCHANGED << previous, records, mvars, bvars >>

\* a mutation of ExtractCollegeRaises: the exception leaves the loop and
\* reaches the handler of parse_pdf
ExtractCollegeAborts ==
  /\ pc = "colleges"
  /\ i <= Len(college_lines)
  /\ raised' = raised \cup {i}
  /\ result' = [error |-> "exception", parsing_success |-> FALSE]
  /\ pc' = "done"
  /\ UNCHANGED << text, tag, shape, college_lines, i, colleges, warnings >>
  /\ UNCHANGED << previous, records, mvars, bvars >>

\* one pass of the loop whose try block raises: logged, the college skipped
ExtractCollegeRaises ==
  /\ pc = "colleges"
  /\ i <= Len(college_lines)
  /\ raised' = raised \cup {i}
  /\ i' = i + 1
  /\ UNCHANGED << text, tag, shape, pc, college_lines, colleges, warnings, result >>
  /\ UNCHANGED << previous, records, mvars, bvars >>

\* a mutation of ParseResult: the check for an empty list is missing
ParseResultUnchecked(cs) == SuccessResult(cs)

\* what parse_pdf returns for the list extract_colleges built
ParseResult(cs) == IF cs = << >> THEN NoCollegesResult ELSE SuccessResult(cs)

\* the end of parse_pdf: no college record is a failure value
ParseReturn ==
  /\ pc = "colleges"
  /\ i > Len(college_lines)
  /\ result' = ParseResult(colleges)
  /\ pc' = "done"
  /\ UNCHANGED << text, tag, shape, college_lines, i, colleges, warnings, raised >>
  /\ UNCHANGED << previous, records, mvars, bvars >>

(***************************************************************************)
(* Persistence mode: the store behind the SQLAlchemy session.              *)
(*   store   - the committed rows                                          *)
(*   tx      - the rows as the open transaction sees them: the committed   *)
(*             rows, the flushed ones and the ranks set on loaded rows     *)
(*   pending - Cutoff objects added to the session and not flushed; with   *)
(*             autoflush=False (models.py) no query sees them              *)
(***************************************************************************)
Year    == 2024   \* the default of migrate_pdf_to_database
MaxRuns == 2      \* migrations of the same text into the same store
MaxFailures == 1  \* colleges of one migration whose try block raises

EmptyStore == [colleges |-> {}, courses |-> {}, cutoffs |-> {}]

\* the next value of an autoincrement key
NextId(rows) == IF rows = {} THEN 1 ELSE Max({ r.id : r \in rows }) + 1

RECURSIVE FlushCutoffs(_, _)
\* INSERT of the pending Cutoff objects, in the order they were added
FlushCutoffs(rows, pend) ==
  IF pend = << >> THEN rows
  ELSE FlushCutoffs(rows \cup { [id        |-> NextId(rows),
                                course_id |-> Head(pend).course_id,
                                year      |-> Head(pend).year,
                                category  |-> Head(pend).category,
                                rank      |-> Head(pend).rank] },
                    Tail(pend))

\* session.flush()
Flush(t, pend) == [t EXCEPT !.cutoffs = FlushCutoffs(t.cutoffs, pend)]

\* the rows College.name.like('%' + college_name + '%') selects
CollegesLike(t, college_name) ==
  { r \in t.colleges : Contains(r.name, college_name) }

\* the rows of the query of find_or_create_course
CoursesOf(t, college_id, branch_name) ==
  { r \in t.courses : r.college_id = college_id /\ r.name = branch_name }

\* the rows of the query of update_cutoff
CutoffsOf(t, course_id, year, category) ==
  { r \in t.cutoffs : r.course_id = course_id /\ r.year = year /\ r.category = category }

\* a branch as the loop of migrate_pdf_to_database holds it: the name, the
\* entries parse_cutoff_data returned and the warnings it logged
BranchEntry(branch_name, table) ==
  [name |-> branch_name, cutoffs |-> table.cutoff_data, warnings |-> table.warnings]

\* the (name, cutoff entries) of the branches of a college section, in the
\* order migrate_pdf_to_database walks them
BranchList(college_section) ==
  LET matches == BranchFindIter(college_section, 1)
  IN  [k \in 1..Len(matches) |->
         BranchEntry(Strip(matches[k].name),
                     parse_cutoff_data(BranchSection(college_section, matches[k])))]

\* what a migration left behind when it returned: the committed rows, and
\* whether every college of it was committed
MigrationLeft(st, oc) ==
  [store |-> st, clean |-> \A k \in 1..Len(oc) : oc[k]]

\* migrate_pdf_to_database up to the loop: no text returns False; otherwise
\* the college lines are collected and a session is opened
MigrateStart ==
  /\ m_pc = "start"
  /\ IF text = << >>
     THEN /\ returned' = FALSE
          /\ m_pc' = "done"
          /\ UNCHANGED << m_college_lines, idx, tx, pending >>
     ELSE /\ m_college_lines' = CollegeLines(text)
          /\ idx' = 1
          /\ tx' = store
          /\ pending' = << >>
          /\ m_pc' = "college"
          /\ UNCHANGED returned
  /\ outcome' = << >>
  /\ UNCHANGED << run, store, college, branch_list, b, course, e, written,
                  persisted >>
  /\ UNCHANGED << earlier, pvars, bvars >>

\* find_or_create_college for college idx: first() of the LIKE query gives
\* any matching row; without a match a row is added and flushed
FindOrCreateCollege ==
  /\ m_pc = "college"
  /\ idx <= Len(m_college_lines)
  /\ LET college_name == m_college_lines[idx][3]
         found == CollegesLike(tx, college_name)
     IN  IF found # {}
         THEN /\ \E r \in found : college' = r.id
              /\ UNCHANGED << tx, pending >>
         ELSE /\ college' = NextId(tx.colleges)
              /\ tx' = [Flush(tx, pending) EXCEPT !.colleges =
                          @ \cup { [id |-> NextId(tx.colleges), name |-> college_name] }]
              /\ pending' = << >>
  /\ branch_list' = BranchList(CollegeSection(text, m_college_lines, idx))
  /\ b' = 1
  /\ written' = [courses |-> {}, keys |-> {}]
  /\ m_pc' = "course"
  /\ UNCHANGED << run, returned, m_college_lines, idx, store, course, e,
                  outcome, persisted >>
  /\ UNCHANGED << earlier, pvars, bvars >>

\* find_or_create_course for branch b; the flush of a new course also
\* inserts the cutoffs still pending from the branches before
FindOrCreateCourse ==
  /\ m_pc = "course"
  /\ b <= Len(branch_list)
  /\ LET branch_name == branch_list[b].name
         found == CoursesOf(tx, college, branch_name)
     IN  IF found # {}
         THEN /\ \E r \in found : course' = r.id
              /\ UNCHANGED << tx, pending >>
         ELSE /\ course' = NextId(tx.courses)
              /\ tx' = [Flush(tx, pending) EXCEPT !.courses =
                          @ \cup { [id |-> NextId(tx.courses), college_id |-> college,
                                    name |-> branch_name] }]
              /\ pending' = << >>
  /\ written' = [written EXCEPT !.courses = @ \cup { course' }]
  /\ IF branch_list[b].cutoffs = << >>
     THEN b' = b + 1 /\ m_pc' = "course" /\ UNCHANGED e
     ELSE e' = 1 /\ m_pc' = "cutoff" /\ UNCHANGED b
  /\ UNCHANGED << run, returned, m_college_lines, idx, store, college,
                  branch_list, outcome, persisted >>
  /\ UNCHANGED << earlier, pvars, bvars >>

\* a mutation of UpdateCutoffResults: a Cutoff object is added whether or not
\* the key has a row
UpdateCutoffResultsAdds(t, pend, course_id, year, category, rank) ==
  { [tx |-> t,
     pending |-> Append(pend, [course_id |-> course_id, year |-> year,
                               category |-> category, rank |-> rank])] }

\* update_cutoff: the possible (tx, pending) after the call.  first() gives
\* any row of the key and its rank is set; without a row a Cutoff object is
\* added to the session, not flushed
UpdateCutoffResults(t, pend, course_id, year, category, rank) ==
  LET found == CutoffsOf(t, course_id, year, category)
  IN  IF found # {}
      THEN { [tx |-> [t EXCEPT !.cutoffs = (@ \ { r }) \cup { [r EXCEPT !.rank = rank] }],
              pending |-> pend] : r \in found }
      ELSE { [tx |-> t,
              pending |-> Append(pend, [course_id |-> course_id, year |-> year,
                                        category |-> category, rank |-> rank])] }

\* update_cutoff for entry e of branch b
UpdateCutoff ==
  /\ m_pc = "cutoff"
  /\ e <= Len(branch_list[b].cutoffs)
  /\ LET entry == branch_list[b].cutoffs[e]
     IN  /\ \E r \in UpdateCutoffResults(tx, pending, course, Year,
                                          entry.category, entry.rank) :
               tx' = r.tx /\ pending' = r.pending
         /\ written' = [written EXCEPT !.keys = @ \cup { << course, Year, entry.category >> }]
  /\ IF e = Len(branch_list[b].cutoffs)
     THEN b' = b + 1 /\ m_pc' = "course" /\ UNCHANGED e
     ELSE e' = e + 1 /\ UNCHANGED << b, m_pc >>
  /\ UNCHANGED << run, returned, m_college_lines, idx, store, college, course,
                  branch_list, outcome, persisted >>
  /\ UNCHANGED << earlier, pvars, bvars >>

\* a mutation of CommitStore: nothing becomes durable at the end of a college
CommitNothing(st, t, pend) == st

\* the committed rows after session.commit()
CommitStore(st, t, pend) == Flush(t, pend)

\* session.commit() after the last branch of college idx
CommitCollege ==
  /\ m_pc = "course"
  /\ b > Len(branch_list)
  /\ store' = CommitStore(store, tx, pending)
  /\ tx' = store'
  /\ pending' = << >>
  /\ outcome' = Append(outcome, TRUE)
  /\ persisted' = [colleges |-> persisted.colleges \cup { college },
                   courses  |-> persisted.courses \cup written.courses,
                   keys     |-> persisted.keys \cup written.keys]
  /\ idx' = idx + 1
  /\ m_pc' = "college"
  /\ UNCHANGED << run, returned, m_college_lines, college, branch_list, b,
                  course, e, written >>
  /\ UNCHANGED << earlier, pvars, bvars >>

\* a mutation of CollegeFails: what the college flushed before the exception
\* stays in the store
CollegeFailsKeepsFlushed ==
  /\ \/ m_pc = "college" /\ idx <= Len(m_college_lines)
     \/ m_pc \in {"course", "cutoff"}
  /\ Cardinality({ k \in 1..Len(outcome) : ~outcome[k] }) < MaxFailures
  /\ store' = tx
  /\ pending' = << >>
  /\ outcome' = Append(outcome, FALSE)
  /\ idx' = idx + 1
  /\ m_pc' = "college"
  /\ UNCHANGED << run, returned, m_college_lines, tx, college, branch_list,
                  b, course, e, written, persisted >>
  /\ UNCHANGED << earlier, pvars, bvars >>

\* an exception inside the try block of college idx (a database error at
\* any of its statements): session.rollback() and continue
CollegeFails ==
  /\ \/ m_pc = "college" /\ idx <= Len(m_college_lines)
     \/ m_pc \in {"course", "cutoff"}
  /\ Cardinality({ k \in 1..Len(outcome) : ~outcome[k] }) < MaxFailures
  /\ tx' = store
  /\ pending' = << >>
  /\ outcome' = Append(outcome, FALSE)
  /\ idx' = idx + 1
  /\ m_pc' = "college"
  /\ UNCHANGED << run, returned, m_college_lines, store, college, branch_list,
                  b, course, e, written, persisted >>
  /\ UNCHANGED << earlier, pvars, bvars >>

\* the value migrate_pdf_to_database returns after its loop
ReturnAfterLoop(cl) == TRUE

\* the end of the loop: return True, the session is closed
MigrateReturn ==
  /\ m_pc = "college"
  /\ idx > Len(m_college_lines)
  /\ returned' = ReturnAfterLoop(m_college_lines)
  /\ m_pc' = "done"
  /\ UNCHANGED << run, m_college_lines, idx, store, tx, pending, college,
                  branch_list, b, course, e, written, outcome, persisted >>
  /\ UNCHANGED << earlier, pvars, bvars >>

\* the same text is migrated once more into the same store
MigrateAgain ==
  /\ m_pc = "done"
  /\ run < MaxRuns
  /\ run' = run + 1
  /\ returned' = None
  /\ m_pc' = "start"
  /\ earlier' = MigrationLeft(store, outcome)
  /\ UNCHANGED << m_college_lines, idx, store, tx, pending, college,
                  branch_list, b, course, e, written, outcome, persisted >>
  /\ UNCHANGED << pvars, bvars >>

(***************************************************************************)
(* Specifications                                                          *)
(***************************************************************************)
ParserIdle ==
  /\ pc = "idle" /\ college_lines = << >> /\ i = 1 /\ colleges = << >>
  /\ warnings = 0 /\ raised = {} /\ result = None /\ previous = << >>
  /\ records = << >>

BinderIdle ==
  /\ slots = << >> /\ before = << >> /\ last = "idle" /\ orphans = FALSE

MigratorIdle ==
  /\ m_pc = "idle" /\ run = 0 /\ returned = None /\ m_college_lines = << >>
  /\ idx = 1 /\ store = EmptyStore /\ tx = EmptyStore /\ pending = << >>
  /\ college = 0 /\ branch_list = << >> /\ b = 1 /\ course = 0 /\ e = 1
  /\ written = [courses |-> {}, keys |-> {}] /\ outcome = << >>
  /\ persisted = [colleges |-> {}, courses |-> {}, keys |-> {}]
  /\ earlier = None

\* library mode: a parser is constructed and handed one of the texts
Init ==
  /\ \E inp \in Inputs : text = inp.text /\ tag = inp.tag /\ shape = inp.shape
  /\ pc = "start" /\ college_lines = << >> /\ i = 1 /\ colleges = << >>
  /\ warnings = 0 /\ raised = {} /\ result = None /\ previous = << >>
  /\ records = << >>
  /\ MigratorIdle
  /\ BinderIdle

Next ==
  \/ ParseStart
  \/ ExtractCollege
  \/ ExtractCollegeRaises
  \/ ParseReturn

Spec == Init /\ [][Next]_vars

\* the branches of a document whose table has two stages
TwoStageBranches(sh) ==
  { ck \in (1..Len(sh)) \X (1..MaxBranches) :
      ck[2] <= Len(sh[ck[1]]) /\ sh[ck[1]][ck[2]].kind = "two" }

\* the documents migrated: those with at most one branch of two stages, and
\* that one with one pair a stage; several branches only in a single college;
\* none of the bodies made for the categories line and the branch headers of
\* library mode
MigShapes ==
  { sh \in Shapes :
      /\ \A c \in 1..Len(sh) : \A k \in 1..Len(sh[c]) :
           sh[c][k].kind \notin {"catsat", "catstwice", "anchor2"}
      /\ Len(sh) >= 2 => \A c \in 1..Len(sh) : Len(sh[c]) <= 1
      /\ Cardinality(TwoStageBranches(sh)) <= 1
      /\ \A ck \in TwoStageBranches(sh) : sh[ck[1]][ck[2]].m = 1 }

MigInputs ==
  { [tag |-> "shape", shape |-> sh, text |-> TextOf(sh)] : sh \in MigShapes }
    \cup { [tag |-> "empty",     shape |-> << >>, text |-> << >>],
           [tag |-> "nocollege", shape |-> << >>, text |-> NoCollegeText] }

\* persistence mode: an empty store and the first migration of a text
MigInit ==
  /\ \E inp \in MigInputs : text = inp.text /\ tag = inp.tag /\ shape = inp.shape
  /\ ParserIdle
  /\ m_pc = "start" /\ run = 1 /\ returned = None /\ m_college_lines = << >>
  /\ idx = 1 /\ store = EmptyStore /\ tx = EmptyStore /\ pending = << >>
  /\ college = 0 /\ branch_list = << >> /\ b = 1 /\ course = 0 /\ e = 1
  /\ written = [courses |-> {}, keys |-> {}] /\ outcome = << >>
  /\ persisted = [colleges |-> {}, courses |-> {}, keys |-> {}]
  /\ earlier = None
  /\ BinderIdle

MigNext ==
  \/ MigrateStart
  \/ FindOrCreateCollege
  \/ FindOrCreateCourse
  \/ UpdateCutoff
  \/ CommitCollege
  \/ CollegeFails
  \/ MigrateReturn
  \/ MigrateAgain

MigSpec == MigInit /\ [][MigNext]_vars

\* the most parses of one parser
MaxParses == 3

\* the texts a parser is handed one after the other
ReparseInputs ==
  { [tag |-> "shape", shape |-> sh, text |-> TextOf(sh)] :
      sh \in { << << Body("plain", 2, 2) >> >>,
               << << Body("rows", MaxPairs, MaxPairs) >> >>,
               << << Body("two", 1, 1) >>, << Body("none", 0, 0) >> >> } }
    \cup { [tag |-> "scenario",  shape |-> << >>, text |-> ScenarioText],
           [tag |-> "empty",     shape |-> << >>, text |-> << >>],
           [tag |-> "nocollege", shape |-> << >>, text |-> NoCollegeText] }

\* a mutation of ParseAgain: the list of college records is kept on the
\* parser and not emptied between parses
ParseAgainKeepsColleges ==
  /\ pc = "done"
  /\ Len(previous) < MaxParses - 1
  /\ previous' = Append(previous, [tag |-> tag, shape |-> shape,
                                   clean |-> raised = {}, result |-> result])
  /\ \E inp \in ReparseInputs :
       text' = inp.text /\ tag' = inp.tag /\ shape' = inp.shape
  /\ pc' = "start" /\ college_lines' = << >> /\ i' = 1
  /\ raised' = {} /\ result' = None
  /\ UNCHANGED << colleges, warnings, records, mvars, bvars >>

\* parse_pdf is called again, on the same parser or on a new one: the parser
\* keeps nothing but its patterns, every list is a local of the call
ParseAgain ==
  /\ pc = "done"
  /\ Len(previous) < MaxParses - 1
  /\ previous' = Append(previous, [tag |-> tag, shape |-> shape,
                                   clean |-> raised = {}, result |-> result])
  /\ \E inp \in ReparseInputs :
       text' = inp.text /\ tag' = inp.tag /\ shape' = inp.shape
  /\ pc' = "start" /\ college_lines' = << >> /\ i' = 1 /\ colleges' = << >>
  /\ raised' = {} /\ result' = None
  /\ UNCHANGED << warnings, records, mvars, bvars >>

ReparseInit ==
  /\ \E inp \in ReparseInputs : text = inp.text /\ tag = inp.tag /\ shape = inp.shape
  /\ pc = "start" /\ college_lines = << >> /\ i = 1 /\ colleges = << >>
  /\ warnings = 0 /\ raised = {} /\ result = None /\ previous = << >>
  /\ records = << >>
  /\ MigratorIdle
  /\ BinderIdle

ReparseNext ==
  \/ ParseStart
  \/ ExtractCollege
  \/ ExtractCollegeRaises
  \/ ParseReturn
  \/ ParseAgain

ReparseSpec == ReparseInit /\ [][ReparseNext]_vars

\* the body of the loop of extract_colleges for a college taken out of turn:
\* any college not yet processed, its section cut as the loop cuts it
ExtractAny ==
  /\ pc \in {"colleges", "done"}
  /\ \E k \in 1..Len(college_lines) :
       /\ \A n \in 1..Len(records) : records[n][1] # k
       /\ \E branches \in { extract_branches_for_college(
                                CollegeSection(text, college_lines, k)) } :
            records' = Append(records,
                              << k, CollegeRecord(college_lines[k], branches) >>)
  /\ UNCHANGED << text, tag, shape, pc, college_lines, i, colleges, warnings,
                  raised, result, previous >>
  /\ UNCHANGED << mvars, bvars >>

\* a mutation of Assemble: the records in the order they were completed
AssembleAsCompleted(rs) == [k \in 1..Len(rs) |-> rs[k][2]]

\* the records of the colleges processed out of turn, in document order
Assemble(rs) ==
  [k \in 1..Len(rs) |-> rs[CHOOSE n \in 1..Len(rs) : rs[n][1] = k][2]]

\* the documents of several colleges
AnyOrderInputs ==
  { inp \in Inputs : inp.tag \in {"shape", "preamble"} /\ Len(inp.shape) >= 2 }

\* one text, parsed by parse_pdf and, college by college in any order, by
\* the body of its loop; no pass raises
AnyOrderInit ==
  /\ \E inp \in AnyOrderInputs :
       text = inp.text /\ tag = inp.tag /\ shape = inp.shape
  /\ pc = "start" /\ college_lines = << >> /\ i = 1 /\ colleges = << >>
  /\ warnings = 0 /\ raised = {} /\ result = None /\ previous = << >>
  /\ records = << >>
  /\ MigratorIdle
  /\ BinderIdle

AnyOrderNext ==
  \/ ParseStart
  \/ ExtractCollege
  \/ ParseReturn
  \/ ExtractAny

AnyOrderSpec == AnyOrderInit /\ [][AnyOrderNext]_vars

\* the most entries of the list of one stage block
MaxSlots == 3

\* stage_data.extend([(rank, None) ...]): one rank of a line is appended
AppendRank ==
  /\ Len(slots) < MaxSlots
  /\ \E j \in 1..2 : slots' = Append(slots, << RankTok(1, j), None >>)
  /\ before' = slots
  /\ last' = "rank"
  /\ UNCHANGED << orphans, pvars, mvars >>

\* one pass of "for percentage in percentages", in the parser with its else
\* branch and in the migrator without
BindOne ==
  /\ \E j \in 1..2 :
       /\ Len(BindPercentage(slots, PctStr(j), orphans)) <= MaxSlots
       /\ slots' = BindPercentage(slots, PctStr(j), orphans)
  /\ before' = slots
  /\ last' = "pct"
  /\ UNCHANGED << orphans, pvars, mvars >>

\* a stage block is opened with an empty list, by either program
BindInit ==
  /\ slots = << >> /\ before = << >> /\ last = "idle" /\ orphans \in BOOLEAN
  /\ \E inp \in { x \in ReparseInputs : x.tag = "empty" } :
       text = inp.text /\ tag = inp.tag /\ shape = inp.shape
  /\ ParserIdle
  /\ MigratorIdle

BindNext ==
  \/ AppendRank
  \/ BindOne

BindSpec == BindInit /\ [][BindNext]_vars

\* both modes on the same single-branch document: the parser and, into an
\* empty store, the migrator
BothInputs ==
  { inp \in MigInputs :
      inp.tag = "shape" /\ Len(inp.shape) = 1 /\ Len(inp.shape[1]) = 1 }

BothInit ==
  /\ \E inp \in BothInputs : text = inp.text /\ tag = inp.tag /\ shape = inp.shape
  /\ pc = "start" /\ college_lines = << >> /\ i = 1 /\ colleges = << >>
  /\ warnings = 0 /\ raised = {} /\ result = None /\ previous = << >>
  /\ records = << >>
  /\ m_pc = "start" /\ run = 1 /\ returned = None /\ m_college_lines = << >>
  /\ idx = 1 /\ store = EmptyStore /\ tx = EmptyStore /\ pending = << >>
  /\ college = 0 /\ branch_list = << >> /\ b = 1 /\ course = 0 /\ e = 1
  /\ written = [courses |-> {}, keys |-> {}] /\ outcome = << >>
  /\ persisted = [colleges |-> {}, courses |-> {}, keys |-> {}]
  /\ earlier = None
  /\ BinderIdle

BothNext ==
  \/ ParseStart
  \/ ExtractCollege
  \/ ExtractCollegeRaises
  \/ ParseReturn
  \/ MigrateStart
  \/ FindOrCreateCollege
  \/ FindOrCreateCourse
  \/ UpdateCutoff
  \/ CommitCollege
  \/ CollegeFails
  \/ MigrateReturn
  \/ MigrateAgain

BothSpec == BothInit /\ [][BothNext]_vars

(***************************************************************************)
(* What the generated documents say, read off the shape and not the text   *)
(***************************************************************************)
\* the document has one college with one branch of the given kind
SingleBody(kinds) ==
  /\ tag = "shape" /\ Len(shape) = 1 /\ Len(shape[1]) = 1
  /\ shape[1][1].kind \in kinds

\* the only branch record of the returned document
OnlyBranch == result.colleges[1].branches[1]

\* the numbers the tokens RankTok(st, j) and PctStr(j) stand for
RankVal(st, j) == 1000 * st + j
PctVal(j) == [m |-> 100 * (10 - j) + 5, e |-> 1]

CutoffEntry(stage, category, rank, percentage) ==
  [stage |-> stage, category |-> category, rank |-> rank, percentage |-> percentage]

(***************************************************************************)
(* Library mode, the scenario of the specification                         *)
(***************************************************************************)
ScenarioCollegeName ==
  << "G", "o", "v", "t", " ", "C", "o", "l", "l", "e", "g", "e", ",", " ",
     "C", "i", "t", "y" >>
ScenarioBranchName ==
  << "C", "i", "v", "i", "l", " ", "E", "n", "g", "i", "n", "e", "e", "r",
     "i", "n", "g" >>
ScenarioStatus ==
  << "G", "o", "v", "e", "r", "n", "m", "e", "n", "t", " ", "A", "u", "t",
     "o", "n", "o", "m", "o", "u", "s" >>
ScenarioCollegeCode == << "0", "1", "0", "0", "2" >>
ScenarioBranchCode == << "0", "1", "0", "0", "2", "1", "9", "1", "1", "0" >>

\* the document the scenario text describes, with the given cutoff entries
ScenarioResult(cutoff_data) ==
  [colleges |->
     << [college_code |-> ScenarioCollegeCode,
         college_name |-> ScenarioCollegeName,
         branches |-> << [branch_code |-> ScenarioBranchCode,
                          branch_name |-> ScenarioBranchName,
                          status      |-> ScenarioStatus,
                          cutoff_data |-> cutoff_data] >>,
         total_branches |-> 1] >>,
   total_colleges |-> 1,
   total_branches |-> 1,
   total_cutoffs  |-> Len(cutoff_data),
   parsing_success |-> TRUE]

\* C1 as stated: parse_pdf on the scenario text returns one college with one
\* branch of status 'Government Autonomous' and exactly the two cutoff
\* entries (I, GOPENS, 500, 90.1) and (I, GSCS, 600, 85.3).
C1_ScenarioTwoEntries ==
  (pc = "done" /\ tag = "scenario" /\ raised = {}) =>
    result = ScenarioResult(
               << CutoffEntry(StageI, CatCodes[1], 500, [m |-> 901, e |-> 1]),
                  CutoffEntry(StageI, CatCodes[2], 600, [m |-> 853, e |-> 1]) >>)

\* C1 amended: parse_pdf on the scenario text returns one college with one
\* branch of status 'Government Autonomous' and no cutoff entry: its category
\* line has two codes where three are required and its ranks have three
\* digits where four to six are required.
C1_ScenarioNoEntries ==
  (pc = "done" /\ tag = "scenario" /\ raised = {}) =>
    result = ScenarioResult(<< >>)

C1_Witness ==
  /\ pc = "done" /\ tag = "scenario" /\ raised = {}
  /\ result.parsing_success

(***************************************************************************)
(* Library mode, pairing and assignment                                    *)
(***************************************************************************)
\* the entries property P3 expects of its literal block
P3Expected ==
  << CutoffEntry(StageI, << "G", "O", "P", "E", "N", "S" >>, 33717, [m |-> 886, e |-> 1]),
     CutoffEntry(StageI, << "G", "S", "C", "S" >>, 40210, [m |-> 8512, e |-> 2]),
     CutoffEntry(StageI, << "G", "N", "T", "3", "S" >>, 51090, [m |-> 79, e |-> 0]) >>

\* C2 as stated: a stage block whose data line lists k ranks, each followed
\* by its percentile, under at least k category codes gives k entries, the
\* j-th made of the j-th code, the j-th rank and the j-th percentile; the
\* block of P3 gives (GOPENS, 33717, 88.60), (GSCS, 40210, 85.12) and
\* (GNT3S, 51090, 79.00).
C2_PositionalPairing ==
  (pc = "done" /\ raised = {}) =>
    /\ (SingleBody({"plain", "inline"}) /\ shape[1][1].m <= Len(CatCodes)) =>
         OnlyBranch.cutoff_data =
           [j \in 1..shape[1][1].m |->
              CutoffEntry(StageI, CatCodes[j], RankVal(1, j), PctVal(j))]
    /\ tag = "p3" => OnlyBranch.cutoff_data = P3Expected

\* C4 as stated: a stage block with m loose ranks and n < m percentiles gives
\* exactly n complete pairs wherever the percentiles appear.
C4_PairsWherever ==
  (pc = "done" /\ raised = {} /\ SingleBody({"split", "partial", "pctfirst"})
     /\ shape[1][1].n < shape[1][1].m) =>
    Len(OnlyBranch.cutoff_data) = Min({ shape[1][1].n, Len(CatCodes) })

\* C4 amended: a stage block with m loose ranks and n < m percentiles, each
\* percentile read while a rank collected before it is still without one,
\* gives exactly n complete pairs, and no entry is made of a rank that got no
\* percentile (the m - n oldest ranks); a percentile read while no collected
\* rank is open joins no rank, so a block whose first percentile stands on a
\* line above its ranks gives n - 1 pairs.
C4_PairsWhileRankOpen ==
  (pc = "done" /\ raised = {}) =>
    /\ (SingleBody({"split", "partial"}) /\ shape[1][1].n < shape[1][1].m) =>
         /\ Len(OnlyBranch.cutoff_data) = Min({ shape[1][1].n, Len(CatCodes) })
         /\ \A k \in 1..Len(OnlyBranch.cutoff_data) :
              OnlyBranch.cutoff_data[k].rank \notin
                { RankVal(1, j) : j \in 1..(shape[1][1].m - shape[1][1].n) }
    /\ (SingleBody({"pctfirst"}) /\ shape[1][1].n < shape[1][1].m) =>
         Len(OnlyBranch.cutoff_data) = Min({ shape[1][1].n - 1, Len(CatCodes) })

C4_Witness ==
  /\ pc = "done" /\ raised = {} /\ SingleBody({"split"})
  /\ shape[1][1].m = 3 /\ shape[1][1].n = 2
  /\ Len(OnlyBranch.cutoff_data) = 2

(***************************************************************************)
(* Library mode, failures and empty results                                *)
(***************************************************************************)
\* the positions of the colleges of the document whose pass completed
Completed == { c \in 1..Len(shape) : c \notin raised }

\* the k-th smallest element of a set of numbers
Nth(S, k) == CHOOSE c \in S : Cardinality({ x \in S : x < c }) = k - 1

\* C7: an exception while one college is processed skips that college and
\* nothing else: every other college is in the returned list, in document
\* order, and the parse succeeds when at least one college was processed.
C7_FailureSkipsOneCollege ==
  (pc = "done" /\ tag = "shape" /\ Completed # {}) =>
    /\ result.parsing_success
    /\ Len(result.colleges) = Cardinality(Completed)
    /\ \A k \in 1..Len(result.colleges) :
         result.colleges[k].college_code = CollegeCode(Nth(Completed, k))

C7_Witness ==
  /\ pc = "done" /\ tag = "shape" /\ raised # {} /\ Completed # {}
  /\ Len(result.colleges) = Cardinality(Completed)

\* C8: for an empty text, and for a text without a college header, parse_pdf
\* returns a value that holds an error message and parsing_success = FALSE
\* and no document.
C8_NothingParsedIsFailure ==
  (pc = "done" /\ tag \in {"empty", "nocollege"}) =>
    /\ DOMAIN result = {"error", "parsing_success"}
    /\ result.parsing_success = FALSE
    /\ result.error # ""

C8_Witness ==
  /\ pc = "done" /\ tag = "nocollege" /\ text # << >>
  /\ result.parsing_success = FALSE

\* C10: a branch section without the 'State Level' anchor gives a branch with
\* no cutoff entries, a college section without a branch header gives a
\* college with no branches, and both are in a successful result.
C10_EmptyPartsAreSuccess ==
  (pc = "done" /\ tag = "shape" /\ raised = {}) =>
    /\ result.parsing_success
    /\ Len(result.colleges) = Len(shape)
    /\ \A c \in 1..Len(shape) :
         /\ Len(result.colleges[c].branches) = Len(shape[c])
         /\ result.colleges[c].total_branches = Len(shape[c])
         /\ \A k \in 1..Len(shape[c]) :
              shape[c][k].kind \in {"none", "noanchor"} =>
                result.colleges[c].branches[k].cutoff_data = << >>

C10_Witness ==
  /\ pc = "done" /\ tag = "shape" /\ raised = {}
  /\ \E c \in 1..Len(shape) : shape[c] = << >> /\ result.colleges[c].branches = << >>
  /\ \E c \in 1..Len(shape) : \E k \in 1..Len(shape[c]) :
       /\ shape[c][k].kind = "none"
       /\ result.colleges[c].branches[k].cutoff_data = << >>

(***************************************************************************)
(* Persistence mode                                                        *)
(***************************************************************************)
\* C3 as stated: after any sequence of migrations the store holds at most one
\* cutoff row per (course, year, category).
C3_OneRowPerKey ==
  m_pc = "done" =>
    \A r1 \in store.cutoffs : \A r2 \in store.cutoffs :
      (r1.course_id = r2.course_id /\ r1.year = r2.year /\ r1.category = r2.category)
        => r1 = r2

\* C5 as stated: when a stage block has more complete pairs than category
\* codes, as many cutoff entries as codes are made of it and an overflow
\* warning is recorded; here for the block as persistence mode reads it.
C5_OverflowWarned ==
  (m_pc \in {"course", "cutoff"} /\ SingleBody({"plain"})
     /\ shape[1][1].m > Len(CatCodes)) =>
    /\ Len(branch_list[1].cutoffs) = Len(CatCodes)
    /\ branch_list[1].warnings >= 1

\* C6: each college is committed on its own: the college, the courses and
\* the cutoff keys written by a college that was committed are in the store
\* from then on, whatever fails later, and the colleges after a failing one
\* are still processed.
C6_CommittedStaysPersisted ==
  /\ \A id \in persisted.colleges : \E r \in store.colleges : r.id = id
  /\ \A id \in persisted.courses : \E r \in store.courses : r.id = id
  /\ \A key \in persisted.keys :
       \E r \in store.cutoffs : << r.course_id, r.year, r.category >> = key
  /\ (m_pc = "done" /\ text # << >>) => Len(outcome) = Len(m_college_lines)

C6_Witness ==
  /\ m_pc = "done" /\ persisted.keys # {}
  /\ \E k \in 1..Len(outcome) : \E j \in 1..Len(outcome) :
       k < j /\ outcome[k] /\ ~outcome[j]
  /\ \A key \in persisted.keys :
       \E r \in store.cutoffs : << r.course_id, r.year, r.category >> = key

\* C9 as stated: a migration of a non-empty text without a college header is
\* a failure: it returns FALSE and writes nothing.
C9_NoCollegeIsFailure ==
  (m_pc = "done" /\ tag = "nocollege") =>
    /\ returned = FALSE
    /\ store = EmptyStore

(***************************************************************************)
(* Library mode, segmentation into colleges                                *)
(***************************************************************************)
\* the kinds of the header lines of a document of header-like lines, in order
HeadersOf(ks) ==
  LET hs == SelectSeq(ks, LAMBDA ln : IsHeaderKind(LineKind(ln)))
  IN  [k \in 1..Len(hs) |-> LineKind(hs[k])]

\* C11: for a document with N college-header lines extract_colleges builds
\* exactly N college records, in the order of the headers, each with the
\* code and the name of its header.
C11_OneRecordPerHeader ==
  (pc = "done" /\ tag = "lines" /\ raised = {}) =>
    /\ Len(colleges) = Len(HeadersOf(shape))
    /\ \A k \in 1..Len(colleges) :
         /\ colleges[k].college_code = CollegeCode(HeadersOf(shape)[k])
         /\ colleges[k].college_name = CollegeNames[HeadersOf(shape)[k]]

C11_Witness ==
  /\ pc = "done" /\ tag = "lines" /\ raised = {}
  /\ Len(shape) = 3 /\ Len(HeadersOf(shape)) = 2
  /\ LineKind(shape[1]) = 2 /\ LineKind(shape[2]) = 4 /\ LineKind(shape[3]) = 3
  /\ Len(colleges) = 2

(***************************************************************************)
(* Library mode, the values and the totals of a result                     *)
(***************************************************************************)
\* the (college, branch) and (college, branch, entry) positions of a result
BranchPositions(r) ==
  UNION { { << c, k >> : k \in 1..Len(r.colleges[c].branches) } :
            c \in 1..Len(r.colleges) }
EntryPositions(r) ==
  UNION { { << ck[1], ck[2], j >> :
              j \in 1..Len(r.colleges[ck[1]].branches[ck[2]].cutoff_data) } :
            ck \in BranchPositions(r) }
EntryAt(r, pos) == r.colleges[pos[1]].branches[pos[2]].cutoff_data[pos[3]]

\* C12 as stated: every cutoff entry of a parse result has a rank that is a
\* positive integer and a percentile between 0 and 100.
C12_EntriesInRange ==
  (pc = "done" /\ result.parsing_success) =>
    \A pos \in EntryPositions(result) :
      /\ EntryAt(result, pos).rank > 0
      /\ EntryAt(result, pos).percentage.m >= 0
      /\ EntryAt(result, pos).percentage.m
           <= 100 * 10 ^ EntryAt(result, pos).percentage.e

\* C14: in a successful result total_colleges is the number of college
\* records, total_branches the number of branch records, total_cutoffs the
\* number of cutoff entries, and the total_branches of a college the length
\* of its branch list.
C14_TotalsAgree ==
  (pc = "done" /\ result.parsing_success) =>
    /\ result.total_colleges = Len(result.colleges)
    /\ result.total_branches = Cardinality(BranchPositions(result))
    /\ result.total_cutoffs = Cardinality(EntryPositions(result))
    /\ \A c \in 1..Len(result.colleges) :
         result.colleges[c].total_branches = Len(result.colleges[c].branches)

C14_Witness ==
  /\ pc = "done" /\ result.parsing_success
  /\ result.total_colleges = 2 /\ result.total_branches = 4
  /\ result.total_cutoffs = 8

(***************************************************************************)
(* Library mode, the order and the kind of the tokens                      *)
(***************************************************************************)
\* C15 as stated: a percentile is bound only to a rank that stands before it
\* in the text: on a line of ranks and percentiles, rank j gets percentile k
\* only if j <= k, and a rank written after the only percentile gets none.
C15_BoundToEarlierRank ==
  (pc = "done" /\ raised = {}) =>
    /\ SingleBody({"plain", "inline", "partial"}) =>
         \A x \in 1..Len(OnlyBranch.cutoff_data) :
           \A j \in 1..MaxPairs : \A k \in 1..MaxPairs :
             (/\ OnlyBranch.cutoff_data[x].rank = RankVal(1, j)
              /\ OnlyBranch.cutoff_data[x].percentage = PctVal(k)) => j <= k
    /\ SingleBody({"pctlead"}) => OnlyBranch.cutoff_data = << >>

\* C17 as stated: a stage line written with the word 'Stage' opens a stage
\* block: 'Stage I' followed by a data line gives entries of stage I.
C17_StageWordOpensBlock ==
  (pc = "done" /\ raised = {} /\ SingleBody({"stageword"})) =>
    /\ Len(OnlyBranch.cutoff_data) = Min({ shape[1][1].m, Len(CatCodes) })
    /\ \A x \in 1..Len(OnlyBranch.cutoff_data) :
         OnlyBranch.cutoff_data[x].stage = StageI

\* C19 as stated: digits between parentheses are never a loose rank: the
\* lines '(85.1234)' and '(12345)' add no rank, so no entry is made of them.
C19_NoRankInParentheses ==
  (pc = "done" /\ raised = {} /\ SingleBody({"longpct", "parenint"})) =>
    OnlyBranch.cutoff_data = << >>

(***************************************************************************)
(* Both modes on the same branch section                                   *)
(***************************************************************************)
\* C18 as stated: extract_cutoff_data and parse_cutoff_data return the same
\* list of entries for the same branch section.
C18_SameTable ==
  (pc = "done" /\ raised = {} /\ Len(branch_list) = 1) =>
    branch_list[1].cutoffs = OnlyBranch.cutoff_data

\* the entries of a stage among the entries of a branch
StageEntries(cutoff_data, stage) == SelectSeq(cutoff_data, LAMBDA x : x.stage = stage)

\* the entries of stage I of a body whose block is closed by a closing line
\* or by the window: the pair of the first data line and, inside the
\* window, the pair of the second
BlockOne(bd) ==
  << CutoffEntry(StageI, CatCodes[1], RankVal(1, 1), PctVal(1)) >>
    \o (IF bd.kind = "window" /\ bd.n < StageWindow
        THEN << CutoffEntry(StageI, CatCodes[2], RankVal(1, 2), PctVal(2)) >>
        ELSE << >>)

\* C20: a stage block takes its tokens from its opening line and the lines
\* after it that come before the first closing line (a later stage line, a
\* 'Status:' line, a line starting with 10 digits) and inside the window of
\* 20 lines: the tokens of the closing line, of the lines after it and of
\* the lines beyond the window are not in the block, in either mode.
C20_BlockStopsAtBoundary ==
  SingleBody({"closed", "window"}) =>
    /\ (pc = "done" /\ raised = {}) =>
         StageEntries(OnlyBranch.cutoff_data, StageI) = BlockOne(shape[1][1])
    /\ Len(branch_list) = 1 =>
         StageEntries(branch_list[1].cutoffs, StageI) = BlockOne(shape[1][1])

C20_Witness ==
  /\ SingleBody({"window"}) /\ shape[1][1].n = StageWindow
  /\ pc = "done" /\ raised = {} /\ Len(branch_list) = 1
  /\ Len(OnlyBranch.cutoff_data) = 1 /\ Len(branch_list[1].cutoffs) = 1

(***************************************************************************)
(* One parser, several parses                                              *)
(***************************************************************************)
\* the earlier parses of the text now parsed whose loop raised nowhere
EarlierParses ==
  { k \in 1..Len(previous) :
      previous[k].tag = tag /\ previous[k].shape = shape /\ previous[k].clean }

\* C13: parse_pdf keeps nothing between calls: a text parsed again, right
\* away or after parses of other texts, gives the ParseResult it gave before,
\* the same colleges, branches and entries in the same order and the same
\* totals (two parses in which no exception interfered).
C13_SameTextSameResult ==
  (pc = "done" /\ raised = {}) =>
    \A k \in EarlierParses : previous[k].result = result

C13_Witness ==
  /\ pc = "done" /\ raised = {} /\ tag = "shape" /\ Len(previous) = 2
  /\ 1 \in EarlierParses
  /\ previous[2].tag = "scenario" /\ previous[2].clean
  /\ result.parsing_success /\ result.total_cutoffs > 0
  /\ previous[1].result = result

(***************************************************************************)
(* One percentile and the entry list of its block                          *)
(***************************************************************************)
\* the percentile went to the most recently added entry with none; every
\* other entry and the rank of that entry are as they were
FillsMostRecent(old, new) ==
  /\ Len(new) = Len(old)
  /\ \E k \in 1..Len(old) :
       /\ old[k][2] = None
       /\ \A n \in (k + 1)..Len(old) : old[n][2] # None
       /\ new[k][1] = old[k][1] /\ new[k][2] # None
       /\ \A n \in 1..Len(old) : n # k => new[n] = old[n]

\* no entry was without a percentile and one entry (None, percentage) was
\* appended
AppendsOrphan(old, new) ==
  /\ \A k \in 1..Len(old) : old[k][2] # None
  /\ Len(new) = Len(old) + 1
  /\ SubSeq(new, 1, Len(old)) = old
  /\ new[Len(new)][1] = None /\ new[Len(new)][2] # None

\* C16 as stated: one percentile changes exactly one slot of the list of its
\* block, in either program: it fills the most recently added entry without a
\* percentile or, with no such entry, appends one orphan entry.
C16_OneSlotPerPercentile ==
  last = "pct" => FillsMostRecent(before, slots) \/ AppendsOrphan(before, slots)

(***************************************************************************)
(* Library mode, the categories line                                       *)
(***************************************************************************)
\* the entries of the two rows of TwoRows under the category codes codes
TwoRowEntries(codes) ==
  << CutoffEntry(StageI, codes[1], RankVal(1, 1), PctVal(1)),
     CutoffEntry(StageI, codes[2], RankVal(1, 2), PctVal(2)) >>

\* the entries of a branch whose line of three codes is line bd.m after the
\* first 'State Level' line (kind "catsat"), comes second of two such lines
\* ("catstwice") or follows a second 'State Level' line ("anchor2")
CategoryEntries(bd) ==
  CASE bd.kind = "catsat"    -> IF bd.m <= 4 THEN TwoRowEntries(CatCodes) ELSE << >>
    [] bd.kind = "catstwice" -> TwoRowEntries(AltCodes)
    [] bd.kind = "anchor2"   -> << >>

BadRowEntries(bd) ==
  LET good == SelectSeq([j \in 1..bd.m |-> j], LAMBDA j : j # bd.n)
  IN  [k \in 1..Len(good) |->
         CutoffEntry(StageI, CatCodes[good[k]], RankVal(1, good[k]), PctVal(good[k]))]

\* C22: a complete pair whose percentile does not convert to a number adds
\* no entry and does not end its block: the pairs before and after it are
\* emitted, each under the category at its own position among the complete
\* pairs, in library mode and in persistence mode.
C22_FailedPairSkipped ==
  SingleBody({"badrow"}) =>
    /\ (pc = "done" /\ raised = {}) =>
         OnlyBranch.cutoff_data = BadRowEntries(shape[1][1])
    /\ Len(branch_list) = 1 =>
         branch_list[1].cutoffs = BadRowEntries(shape[1][1])

C22_Witness ==
  /\ SingleBody({"badrow"}) /\ shape[1][1].n = 2
  /\ pc = "done" /\ raised = {} /\ Len(branch_list) = 1
  /\ Len(OnlyBranch.cutoff_data) = 2
  /\ OnlyBranch.cutoff_data[2].category = CatCodes[3]
  /\ branch_list[1].cutoffs = OnlyBranch.cutoff_data

(***************************************************************************)
(* Library mode, segmentation into branches                                *)
(***************************************************************************)
\* C23 as stated: ten digits, a dash and text in the middle of a line, or at
\* the end of a longer run of digits, start no branch and do not cut the
\* section of the branch they are in: the college has its one branch, with
\* its status and the entries of its table.
C23_HeaderOnlyAtLineStart ==
  (tag = "midline" /\ pc = "done" /\ raised = {}) =>
    /\ Len(result.colleges[1].branches) = 1
    /\ OnlyBranch.branch_code = BranchCode(1, 1)
    /\ OnlyBranch.status = StatusValue
    /\ OnlyBranch.cutoff_data = TwoRowEntries(CatCodes)

(***************************************************************************)
(* Library mode, colleges, branches and entries as a nested partition      *)
(***************************************************************************)
\* the document is made of the bodies of SmallBodies
SmallDoc ==
  /\ tag \in {"shape", "preamble"} /\ Len(shape) >= 1
  /\ \A c \in 1..Len(shape) : \A k \in 1..Len(shape[c]) : shape[c][k] \in SmallBodies

\* the ranks written in a body of SmallBodies, in the order of the text
SmallRanks(bd) ==
  CASE bd.kind = "none"  -> << >>
    [] bd.kind = "plain" -> [j \in 1..bd.m |-> RankVal(1, j)]
    [] bd.kind = "two"   -> [j \in 1..bd.m |-> RankVal(1, j)]
                              \o [j \in 1..bd.m |-> RankVal(2, j)]

\* the ranks of the entries of a branch record
RanksOf(branch) == [j \in 1..Len(branch.cutoff_data) |-> branch.cutoff_data[j].rank]

\* C24: the colleges of the result are the college headers of the text;
\* each college has the branches whose headers lie between its header and
\* the next college header, and no other; each branch has the entries of the
\* ranks written in its own section; what is written before the first
\* college header is in no college, branch or entry.
C24_NestedPartition ==
  (pc = "done" /\ raised = {} /\ SmallDoc) =>
    /\ Len(result.colleges) = Len(shape)
    /\ \A c \in 1..Len(shape) :
         /\ result.colleges[c].college_code = CollegeCode(c)
         /\ Len(result.colleges[c].branches) = Len(shape[c])
         /\ \A k \in 1..Len(shape[c]) :
              /\ result.colleges[c].branches[k].branch_code = BranchCode(c, k)
              /\ RanksOf(result.colleges[c].branches[k]) = SmallRanks(shape[c][k])

C24_Witness ==
  /\ pc = "done" /\ raised = {} /\ tag = "preamble" /\ Len(shape) >= 2
  /\ shape[1][1].kind = "plain" /\ shape[2][1].kind = "two"
  /\ Len(result.colleges) = Len(shape)
  /\ RanksOf(result.colleges[1].branches[1]) = << RankVal(1, 1), RankVal(1, 2) >>
  /\ RanksOf(result.colleges[2].branches[1]) = << RankVal(1, 1), RankVal(2, 1) >>

KeyOf(r) == << r.course_id, r.year, r.category >>

\* the entry update_cutoff is about to be called for, and its key
EntryUnderWay == branch_list[b].cutoffs[e]
KeyUnderWay == << course, Year, EntryUnderWay.category >>

\* the step is a call of update_cutoff (and not the failure of the college)
\* for a key the transaction sees a row of
UpdatesStoredKey ==
  /\ m_pc = "cutoff" /\ outcome' = outcome
  /\ \E r \in tx.cutoffs : KeyOf(r) = KeyUnderWay

\* C26: update_cutoff for a key that has a row sets the rank of a row of
\* that key to the new rank and adds no row, flushed or pending; the rows
\* of every other key, the colleges and the courses are as they were.
C26_UpdateInPlace ==
  [][UpdatesStoredKey =>
       /\ pending' = pending
       /\ { r.id : r \in tx'.cutoffs } = { r.id : r \in tx.cutoffs }
       /\ \E r \in tx.cutoffs :
            /\ KeyOf(r) = KeyUnderWay
            /\ tx'.cutoffs = (tx.cutoffs \ { r })
                               \cup { [r EXCEPT !.rank = EntryUnderWay.rank] }
       /\ \A r \in tx.cutoffs : KeyOf(r) # KeyUnderWay => r \in tx'.cutoffs
       /\ tx'.colleges = tx.colleges /\ tx'.courses = tx.courses
       /\ store' = store]_vars

\* in a second migration a rank was set on a stored row and no row was added
C26_Witness ==
  /\ run = 2 /\ m_pc \in {"cutoff", "course"} /\ pending = << >>
  /\ tx.cutoffs # store.cutoffs
  /\ { r.id : r \in tx.cutoffs } = { r.id : r \in store.cutoffs }
  /\ tx.colleges = store.colleges /\ tx.courses = store.courses

(***************************************************************************)
(* Both modes, the stage blocks of a branch section                        *)
(***************************************************************************)
\* the bodies with several rows or several stage lines
BlockBodies == {"two", "closed", "rows", "window", "badrow"}

\* the stage of the nearest stage line at or before the line on which the
\* rank is written in the body bd
StageOfRank(bd, rank) ==
  CASE bd.kind = "two" -> IF rank \div 1000 = 1 THEN StageI ELSE StageII
    [] bd.kind = "closed" /\ bd.m = 3 ->
         IF rank = RankVal(1, 1) THEN StageI ELSE StageII
    [] OTHER -> StageI

\* no rank of the body is in two entries of the list, and every entry has
\* the stage of the stage line its rank stands under
OneBlockPerRank(bd, cutoff_data) ==
  /\ \A j \in 1..Len(cutoff_data) : \A k \in 1..Len(cutoff_data) :
       j # k => cutoff_data[j].rank # cutoff_data[k].rank
  /\ \A j \in 1..Len(cutoff_data) :
       cutoff_data[j].stage = StageOfRank(bd, cutoff_data[j].rank)

\* C27: the stage blocks of a branch section share no line: a rank of the
\* text is in at most one cutoff entry, and that entry has the stage of the
\* nearest stage line at or before the line of the rank, in library mode and
\* in persistence mode.
C27_BlocksShareNoLine ==
  SingleBody(BlockBodies) =>
    /\ (pc = "done" /\ raised = {}) =>
         OneBlockPerRank(shape[1][1], OnlyBranch.cutoff_data)
    /\ Len(branch_list) = 1 =>
         OneBlockPerRank(shape[1][1], branch_list[1].cutoffs)

C27_Witness ==
  /\ SingleBody({"closed"}) /\ shape[1][1].m = 3
  /\ pc = "done" /\ raised = {} /\ Len(branch_list) = 1
  /\ RanksOf(OnlyBranch) = << RankVal(1, 1), RankVal(1, 3), RankVal(1, 2) >>
  /\ OnlyBranch.cutoff_data[1].stage = StageI
  /\ OnlyBranch.cutoff_data[3].stage = StageII
  /\ Len(branch_list[1].cutoffs) = 3

(***************************************************************************)
(* Persistence mode, a college is written as a whole or not at all         *)
(***************************************************************************)
\* the loop has just left a college, committed or rolled back
CollegeLeft == m_pc = "college" /\ outcome # << >>

\* C28: the rows of a college become durable together or not at all.  A
\* college that fails leaves the store as the last commit left it and
\* nothing of it in the session, whatever it had added or flushed; the
\* store changes only by the commit of a college, and that commit makes
\* durable every row the college flushed or added.
C28_CollegeAllOrNothing ==
  /\ [][/\ outcome' = Append(outcome, FALSE) =>
            store' = store /\ tx' = store /\ pending' = << >>
        /\ store' # store =>
            outcome' = Append(outcome, TRUE) /\ store' = Flush(tx, pending)]_vars
  /\ [](CollegeLeft => tx = store /\ pending = << >>)
  /\ []((CollegeLeft /\ outcome[Len(outcome)]) =>
          /\ written.courses \subseteq { r.id : r \in store.courses }
          /\ written.keys \subseteq { KeyOf(r) : r \in store.cutoffs })

\* the first college of a migration into an empty store failed after it
\* had written cutoffs, and the store is empty
C28_Witness ==
  /\ run = 1 /\ m_pc = "college" /\ outcome = << FALSE >>
  /\ written.courses # {} /\ written.keys # {}
  /\ store = EmptyStore /\ tx = EmptyStore /\ pending = << >>

(***************************************************************************)
(* Persistence mode, the same text migrated twice                          *)
(***************************************************************************)
\* C29 as stated: a migration of the text that follows a migration of the
\* same text, every college committed in both, leaves the store as the
\* first one left it: no row more and no rank changed.
C29_SecondRunSameStore ==
  (m_pc = "done" /\ run >= 2 /\ earlier.clean
     /\ \A k \in 1..Len(outcome) : outcome[k]) =>
    store = earlier.store

(***************************************************************************)
(* Persistence mode, one college row for each college name                 *)
(***************************************************************************)
\* C30 as stated: after a migration that committed every college the store
\* has one college row for each college header of the text, under the name
\* of the header, and the row owns the courses of the branches of that
\* college and no other, also where the name of one college is part of the
\* name of another.
C30_OneRowPerCollegeName ==
  (m_pc = "done" /\ tag = "shape" /\ Len(shape) >= 2
     /\ Len(outcome) = Len(shape) /\ \A k \in 1..Len(outcome) : outcome[k]) =>
    /\ Cardinality(store.colleges) = Len(shape)
    /\ \A c \in 1..Len(shape) :
         \E r \in store.colleges :
           /\ r.name = CollegeNames[c]
           /\ Cardinality({ x \in store.courses : x.college_id = r.id })
                = Len(shape[c])

====
